---- MODULE Spec2Model ----
(***************************************************************************)
(* Model of the ktr trace state machine (ktr_lib/src/trace.rs): one Trace  *)
(* polled over a TracerouteChannel whose capture queue is filled by the    *)
(* network, with the WHOIS resolver and the clock as environment (Spec);   *)
(* of the Controller of ktr_agent/src/controller.rs multiplexing traces    *)
(* over one channel (CtlSpec); and of the WHOIS resolver AsnFinder of      *)
(* ktr_lib/src/whois_net.rs reading its three servers (WhoisSpec).         *)
(* CacheSpec is Spec with a public router that has no ASN; InboxSpec is    *)
(* the resolver reading from sockets that buffer the lines they received;  *)
(* CodecSpec is one Echo Request of traceroute_net.rs built, answered by   *)
(* the network and classified. LiveSpec, CtlFairSpec and WhoisFairSpec     *)
(* add the fairness the polling loops give, for the liveness properties.   *)
(***************************************************************************)
EXTENDS Integers, Sequences, FiniteSets, TLC

(* ------------------------------ bounds --------------------------------- *)
\* largest TraceConfig.max_hops explored (the field is a u8)
MaxHops == 4
\* slots of the 255-slot hops_buffer that are explored
HopCap == 3
\* the clock runs from 0 to MaxTime
MaxTime == 2
\* frames that can wait in the capture queue
MaxChan == 2
\* PacketId values the random generator draws from (a u16 in the code)
NumIds == 2
\* lines a socket of the resolver can hold unread
MaxInbox == 2

(* ------------------------- program constants --------------------------- *)
\* u8 arithmetic of max_hops - 1 wraps modulo 2^8 when overflow checks are off
U8Mod == 256

(* ------------------------------ values --------------------------------- *)
NoneAsn == -1
NoId == -1
NoPos == -1
NoTime == -1
NoIp == <<>>
Absent == -2

Ip10 == <<10, 0, 0, 1>>
Ip192 == <<192, 0, 2, 1>>
Ip9 == <<9, 9, 9, 9>>
Ip8 == <<8, 8, 8, 8>>
IPs == {Ip10, Ip192, Ip9, Ip8}
Ids == 0..(NumIds - 1)
Slots == 0..(HopCap - 1)

\* the WHOIS database of the environment: the definitive answer for an ip
WhoisStub(ip) ==
  IF ip = Ip192 THEN 64500
  ELSE IF ip = Ip9 THEN 19281
  ELSE NoneAsn

(* ------------------------------- hops ---------------------------------- *)
Unused == [kind |-> "Unused", id |-> NoId, ip |-> NoIp, network_info |-> NoneAsn]
Pending(id) == [kind |-> "Pending", id |-> id, ip |-> NoIp, network_info |-> NoneAsn]
FindingAsn(ip) == [kind |-> "FindingAsn", id |-> NoId, ip |-> ip, network_info |-> NoneAsn]
Done(ip, ni) == [kind |-> "Done", id |-> NoId, ip |-> ip, network_info |-> ni]

(* ---------------------------- trace state ------------------------------ *)
NotStarted ==
  [kind |-> "NotStarted", when |-> NoTime, index |-> NoPos, last_retry |-> NoTime, reason |-> "None"]
OnHop(when, index) ==
  [kind |-> "OnHop", when |-> when, index |-> index, last_retry |-> NoTime, reason |-> "None"]
SentAllRequests(when, last_retry) ==
  [kind |-> "SentAllRequests", when |-> when, index |-> NoPos, last_retry |-> last_retry, reason |-> "None"]
ReachedDestination(when, last_retry) ==
  [kind |-> "ReachedDestination", when |-> when, index |-> NoPos, last_retry |-> last_retry, reason |-> "None"]
Terminated(reason) ==
  [kind |-> "Terminated", when |-> NoTime, index |-> NoPos, last_retry |-> NoTime, reason |-> reason]

(* ------------------------------ frames --------------------------------- *)
NoFrame == [kind |-> "None", ip |-> NoIp, id |-> NoId]
\* the frames the network delivers: Time-Exceeded from any host, Echo-Reply
\* from the destination, Destination-Unreachable from the destination and
\* from one router, and a frame of another kind
Frames ==
  [kind : {"TimeExceeded"}, ip : {Ip10, Ip192, Ip9}, id : Ids]
    \cup [kind : {"EchoReply"}, ip : {Ip9}, id : Ids]
    \cup [kind : {"DestinationUnreachable"}, ip : {Ip9, Ip10}, id : {NoId}]
    \cup [kind : {"Other"}, ip : {NoIp}, id : {NoId}]

(* ----------------------------- is_public ------------------------------- *)
\* is_public without the is_documentation test
is_public_no_doc(ip) ==
  IF Len(ip) = 4
  THEN ~( \/ ip[1] = 10
          \/ (ip[1] = 172 /\ ip[2] \in 16..31)
          \/ (ip[1] = 192 /\ ip[2] = 168)
          \/ ip[1] = 127
          \/ ip = <<255, 255, 255, 255>>
          \/ ip[1] \in 224..239
          \/ (ip[1] = 169 /\ ip[2] = 254)
          \/ ip = <<0, 0, 0, 0>> )
  ELSE ~( \/ ip = <<0, 0, 0, 0, 0, 0, 0, 1>>
          \/ ip[1] \div 256 = 255
          \/ ip = <<0, 0, 0, 0, 0, 0, 0, 0>> )

is_public(ip) ==
  IF Len(ip) = 4
  THEN ~( \/ ip[1] = 10
          \/ (ip[1] = 172 /\ ip[2] \in 16..31)
          \/ (ip[1] = 192 /\ ip[2] = 168)
          \/ ip[1] = 127
          \/ ip = <<255, 255, 255, 255>>
          \/ ip[1] \in 224..239
          \/ (ip[1] = 169 /\ ip[2] = 254)
          \/ ip = <<0, 0, 0, 0>>
          \/ (ip[1] = 192 /\ ip[2] = 0 /\ ip[3] = 2)
          \/ (ip[1] = 198 /\ ip[2] = 51 /\ ip[3] = 100)
          \/ (ip[1] = 203 /\ ip[2] = 0 /\ ip[3] = 113) )
  ELSE ~( \/ ip = <<0, 0, 0, 0, 0, 0, 0, 1>>
          \/ ip[1] \div 256 = 255
          \/ ip = <<0, 0, 0, 0, 0, 0, 0, 0>> )

VARIABLES
  config,          \* TraceConfig
  overflow_checks, \* whether the build panics on integer overflow (debug) or wraps (release)
  dst_ip,          \* Trace.dst_ip
  state,           \* Trace.state
  hops_buffer,     \* Trace.hops_buffer
  used_hops,       \* Trace.used_hops
  asn_cache,       \* Trace.asn_cache
  chan,            \* frames captured by TracerouteChannel.rx and not yet read
  now,             \* the clock (Instant::now())
  panicked,        \* the thread polling the trace has aborted
  initProbes,      \* history: TTLs of the probes sent by start_next_hop, in order
  ret,             \* what the call of Trace::poll that produced this state returned and did
  \* the Controller
  enable_ipv6,     \* whether the channel was opened with an IPv6 sender (v6_tx is Some)
  traces,          \* Controller.traces
  next_id,         \* Controller.next_id
  iter_cursor,     \* Controller.iter_cursor
  rx,              \* frames captured by the controller's channel and not yet read
  event,           \* what the last call of start_trace or try_next returned and did
  \* the WHOIS resolver
  finder,          \* the AsnFinder of one lookup, or NoFinder
  answer,          \* what the last call of AsnFinder::lookup or AsnFinder::poll returned and did
  inbox,           \* the lines each source's socket has received and the finder has not read
  \* the packets of TracerouteChannel
  wire             \* one Echo Request, the frame that answers it and what poll makes of it

traceVars == <<config, overflow_checks, dst_ip, state, hops_buffer, used_hops, asn_cache,
               chan, now, panicked, initProbes, ret>>
ctlVars == <<enable_ipv6, traces, next_id, iter_cursor, rx, event>>

whoisVars == <<finder, answer, inbox>>

codecVars == <<wire>>

vars == <<traceVars, ctlVars, whoisVars, codecVars>>

(* --------------------- the context a poll works on --------------------- *)
\* The fields of the Trace and of the channel that one call of poll reads
\* and writes, with the record of what that call did.
Ctx ==
  [st |-> state, hb |-> hops_buffer, used |-> used_hops, cache |-> asn_cache,
   ch |-> chan, dst |-> dst_ip, cfg |-> config,
   du |-> "No",          \* the did_update of the innermost running poll_inner
   probes |-> <<>>,      \* send_echo calls of this poll, in order
   nread |-> 0,          \* rx.next() calls of this poll that returned a frame
   asked |-> 0,          \* AsnFinder::poll calls of this poll
   replyStarts |-> 0,    \* start_next_hop calls made by poll_inner
   dstMatch |-> FALSE,   \* a reply from dst_ip was matched to a Pending hop
   matches |-> {},       \* the replies matched to a Pending hop, and whether
                         \* AsnFinder::lookup was called for them
   lateMut |-> FALSE,    \* a hop was written while the state was Terminated
   capped |-> FALSE]     \* a slot beyond HopCap was needed

(* --------------------------- Trace helpers ----------------------------- *)
\* Trace::hops
hops == [i \in 0..(used_hops - 1) |-> hops_buffer[i]]

\* no hop in use is Pending: a hop in FindingAsn passes for Done
all_hops_answered(c) == \A i \in Slots : i < c.used => c.hb[i].kind # "Pending"

\* Trace::all_hops_done
all_hops_done(c) == \A i \in Slots : i < c.used => c.hb[i].kind = "Done"

\* TracerouteChannel::send_echo, as the trace sees it: one probe leaves
send_echo(c, ttl, id, initial) ==
  [c EXCEPT !.probes = Append(@, [ttl |-> ttl, id |-> id, initial |-> initial])]

\* a poll of the channel that drains two frames and classifies the first
ChannelPollDrain(ch) ==
  IF ch = <<>>
  THEN [res |-> NoFrame, rest |-> ch, n |-> 0]
  ELSE [res |-> IF Head(ch).kind = "Other" THEN NoFrame ELSE Head(ch),
        rest |-> IF Len(ch) > 1 THEN Tail(Tail(ch)) ELSE Tail(ch),
        n |-> IF Len(ch) > 1 THEN 2 ELSE 1]

\* TracerouteChannel::poll: rx.next() takes the oldest captured frame; a frame
\* that is not an ICMP reply of the three kinds is read and yields None
ChannelPoll(ch) ==
  IF ch = <<>>
  THEN [res |-> NoFrame, rest |-> ch, n |-> 0]
  ELSE [res |-> IF Head(ch).kind = "Other" THEN NoFrame ELSE Head(ch),
        rest |-> Tail(ch), n |-> 1]

\* Trace::retry_ping, the loop over hops() from slot i on
RECURSIVE retry_from(_, _)
retry_from(c, i) ==
  IF i >= c.used THEN c
  ELSE retry_from(IF c.hb[i].kind = "Pending"
                  THEN send_echo(c, i + 1, c.hb[i].id, FALSE)
                  ELSE c, i + 1)

\* a retry that leaves out the first hop
retry_ping_after_first(c) == retry_from(c, 1)

\* Trace::retry_ping
retry_ping(c) == retry_from(c, 0)

\* Trace::start_next_hop; rnd[index] is the value the random generator returns
start_next_hop(c, index, rnd, t) ==
  IF index = (c.cfg.max_hops - 1) % U8Mod
  THEN [c EXCEPT !.st = SentAllRequests(t, t)]
  ELSE IF index \notin Slots
  THEN [c EXCEPT !.capped = TRUE]
  ELSE send_echo([c EXCEPT !.st = OnHop(t, index),
                           !.hb[index] = Pending(rnd[index]),
                           !.used = IF @ > index + 1 THEN @ ELSE index + 1],
                 index + 1, rnd[index], TRUE)

\* poll_inner, the position of the first Pending hop with the id of the reply
MatchPos(hb, used, id) ==
  IF \E i \in Slots : i < used /\ hb[i].kind = "Pending" /\ hb[i].id = id
  THEN CHOOSE i \in Slots :
         /\ i < used /\ hb[i].kind = "Pending" /\ hb[i].id = id
         /\ \A j \in Slots : (j < i /\ hb[j].kind = "Pending") => hb[j].id # id
  ELSE NoPos

\* a matched reply for which the cache is not consulted
HopAfterReplyNoCache(ip, cache) ==
  IF is_public(ip) THEN FindingAsn(ip) ELSE Done(ip, NoneAsn)

\* poll_inner, the hop a matched reply from ip leaves in its slot
HopAfterReply(ip, cache) ==
  IF is_public(ip)
  THEN IF cache[ip] # Absent THEN Done(ip, cache[ip]) ELSE FindingAsn(ip)
  ELSE Done(ip, NoneAsn)

\* is_destination that holds for Echo Replies only
IsDestinationEchoOnly(pkt, dst) == pkt.ip = dst /\ pkt.kind = "EchoReply"

\* poll_inner, is_destination
IsDestination(pkt, dst) == pkt.ip = dst

\* a reply for any hop taken as a reply for the current hop
AnsweredAnyHop(st, hop_index) == TRUE

\* poll_inner, whether the reply answered the hop of OnHop.index
AnsweredCurrentHop(st, hop_index) == st.index = hop_index

\* a Destination-Unreachable that counts whoever sent it
UnreachableFromAnyHost(pkt, dst) == pkt.kind = "DestinationUnreachable"

\* poll_inner, the test of the IcmpDestinationUnreachable arm
UnreachableFromDestination(pkt, dst) == pkt.ip = dst

\* the pass over the AsnFinders that caches the answers Found only
AsnPassCachesFound(c, fr) ==
  LET resolved(i) == i < c.used /\ c.hb[i].kind = "FindingAsn" /\ fr[i]
      any == \E i \in Slots : resolved(i)
  IN [c EXCEPT
        !.hb = [i \in Slots |->
                  IF resolved(i) THEN Done(c.hb[i].ip, WhoisStub(c.hb[i].ip))
                  ELSE c.hb[i]],
        !.cache = [ip \in IPs |->
                     IF /\ \E i \in Slots : resolved(i) /\ c.hb[i].ip = ip
                        /\ WhoisStub(ip) # NoneAsn
                     THEN WhoisStub(ip) ELSE c.cache[ip]],
        !.asked = @ + Cardinality({i \in Slots : i < c.used /\ c.hb[i].kind = "FindingAsn"}),
        !.du = IF any THEN "Yes" ELSE @,
        !.lateMut = @ \/ (any /\ c.st.kind = "Terminated")]

\* poll_inner, the pass over the AsnFinders; fr[i] tells whether the finder of
\* slot i has its definitive answer at this poll (otherwise it is Pending)
AsnPass(c, fr) ==
  LET resolved(i) == i < c.used /\ c.hb[i].kind = "FindingAsn" /\ fr[i]
      any == \E i \in Slots : resolved(i)
  IN [c EXCEPT
        !.hb = [i \in Slots |->
                  IF resolved(i) THEN Done(c.hb[i].ip, WhoisStub(c.hb[i].ip))
                  ELSE c.hb[i]],
        !.cache = [ip \in IPs |->
                     IF \E i \in Slots : resolved(i) /\ c.hb[i].ip = ip
                     THEN WhoisStub(ip) ELSE c.cache[ip]],
        !.asked = @ + Cardinality({i \in Slots : i < c.used /\ c.hb[i].kind = "FindingAsn"}),
        !.du = IF any THEN "Yes" ELSE @,
        !.lateMut = @ \/ (any /\ c.st.kind = "Terminated")]

\* Trace::poll_inner
RECURSIVE poll_inner(_, _, _, _)
poll_inner(c, rnd, fr, t) ==
  LET r == ChannelPoll(c.ch)
      pkt == r.res
      c0 == [c EXCEPT !.ch = r.rest, !.nread = @ + r.n]
      c1 ==
        IF pkt.kind \in {"EchoReply", "TimeExceeded"}
        THEN LET pos == MatchPos(c0.hb, c0.used, pkt.id) IN
             IF pos # NoPos
             THEN LET c2 == [c0 EXCEPT !.hb[pos] = HopAfterReply(pkt.ip, c0.cache),
                                       !.lateMut = @ \/ c0.st.kind = "Terminated",
                                       !.dstMatch = @ \/ pkt.ip = c0.dst,
                                       !.matches = @ \cup
                                         {[pos |-> pos, ip |-> pkt.ip,
                                           lookup |-> HopAfterReply(pkt.ip, c0.cache).kind
                                                        = "FindingAsn"]}]
                  IN IF IsDestination(pkt, c2.dst)
                     THEN [c2 EXCEPT !.st = ReachedDestination(t, t), !.du = "Yes"]
                     ELSE IF c2.st.kind = "OnHop"
                     THEN IF AnsweredCurrentHop(c2.st, pos)
                          THEN LET c3 == start_next_hop(c2, c2.st.index + 1, rnd, t)
                                   c4 == poll_inner([c3 EXCEPT !.replyStarts = @ + 1],
                                                    rnd, fr, t)
                               IN [c4 EXCEPT !.du = "Yes"]
                          ELSE [c2 EXCEPT !.du = "Yes"]
                     ELSE [c2 EXCEPT !.du = "No"]
             ELSE [c0 EXCEPT !.du = "No"]
        ELSE IF pkt.kind = "DestinationUnreachable"
        THEN IF UnreachableFromDestination(pkt, c0.dst)
             THEN [c0 EXCEPT !.st = Terminated("DestinationUnreachable"), !.du = "Yes"]
             ELSE [c0 EXCEPT !.du = "No"]
        ELSE [c0 EXCEPT !.du = "No"]
  IN AsnPass(c1, fr)

(* ------------------------------ Trace::poll ---------------------------- *)
\* the NotStarted arm
PollNotStarted(c, rnd, fr, t) ==
  poll_inner(start_next_hop(c, 0, rnd, t), rnd, fr, t)

\* the OnHop arm starting the hop at index again instead of index + 1
PollOnHopSameIndex(c, rnd, fr, t) ==
  IF t - c.st.when > c.cfg.wait_time_per_hop
  THEN poll_inner(start_next_hop(c, c.st.index, [i \in Slots |-> rnd[(i + 1) % HopCap]], t),
                  rnd, fr, t)
  ELSE poll_inner(c, rnd, fr, t)

\* the OnHop arm
PollOnHop(c, rnd, fr, t) ==
  IF t - c.st.when > c.cfg.wait_time_per_hop
  THEN poll_inner(start_next_hop(c, c.st.index + 1, rnd, t), rnd, fr, t)
  ELSE poll_inner(c, rnd, fr, t)

\* the SentAllRequests arm with a deadline that each retry moves
PollSentAllRequestsSinceRetry(c, rnd, fr, t) ==
  IF t - c.st.last_retry > c.cfg.destination_timeout
  THEN [c EXCEPT !.st = Terminated("DestinationTimeout"), !.du = "Yes"]
  ELSE IF t - c.st.last_retry > c.cfg.retry_frequency
  THEN [retry_ping([c EXCEPT !.st.last_retry = t]) EXCEPT !.du = "No"]
  ELSE poll_inner(c, rnd, fr, t)

\* the SentAllRequests arm
PollSentAllRequests(c, rnd, fr, t) ==
  IF t - c.st.when > c.cfg.destination_timeout
  THEN [c EXCEPT !.st = Terminated("DestinationTimeout"), !.du = "Yes"]
  ELSE IF t - c.st.last_retry > c.cfg.retry_frequency
  THEN [retry_ping([c EXCEPT !.st.last_retry = t]) EXCEPT !.du = "No"]
  ELSE poll_inner(c, rnd, fr, t)

\* the ReachedDestination arm with a completion timeout that does not look at the hops
PollReachedDestinationAnyHops(c, rnd, fr, t) ==
  IF t - c.st.when > c.cfg.completion_timeout
  THEN [c EXCEPT !.st = Terminated("CompletionTimeout"), !.du = "Yes"]
  ELSE IF t - c.st.last_retry > c.cfg.retry_frequency
  THEN [retry_ping([c EXCEPT !.st.last_retry = t]) EXCEPT !.du = "No"]
  ELSE IF all_hops_done(c)
  THEN [c EXCEPT !.st = Terminated("Done"), !.du = "Yes"]
  ELSE [poll_inner(c, rnd, fr, t) EXCEPT !.du = "No"]

\* the ReachedDestination arm
PollReachedDestination(c, rnd, fr, t) ==
  IF t - c.st.when > c.cfg.completion_timeout /\ ~all_hops_done(c)
  THEN [c EXCEPT !.st = Terminated("CompletionTimeout"), !.du = "Yes"]
  ELSE IF t - c.st.last_retry > c.cfg.retry_frequency
  THEN [retry_ping([c EXCEPT !.st.last_retry = t]) EXCEPT !.du = "No"]
  ELSE IF all_hops_done(c)
  THEN [c EXCEPT !.st = Terminated("Done"), !.du = "Yes"]
  ELSE [poll_inner(c, rnd, fr, t) EXCEPT !.du = "No"]

\* the Terminated arm still running the pass over the AsnFinders
PollTerminatedPolls(c, rnd, fr, t) == [AsnPass(c, fr) EXCEPT !.du = "Yes"]

\* the Terminated arm
PollTerminated(c, rnd, fr, t) == [c EXCEPT !.du = "Yes"]

\* Trace::poll, the match on self.state
PollCore(c, rnd, fr, t) ==
  IF c.st.kind = "NotStarted" THEN PollNotStarted(c, rnd, fr, t)
  ELSE IF c.st.kind = "OnHop" THEN PollOnHop(c, rnd, fr, t)
  ELSE IF c.st.kind = "SentAllRequests" THEN PollSentAllRequests(c, rnd, fr, t)
  ELSE IF c.st.kind = "ReachedDestination" THEN PollReachedDestination(c, rnd, fr, t)
  ELSE PollTerminated(c, rnd, fr, t)

\* Trace::poll, the value returned with what the call did
PollReturn(c, pre) ==
  [did_update |-> c.du,
   reason |-> IF c.st.kind = "Terminated" THEN c.st.reason ELSE "None",
   pre |-> pre, probes |-> c.probes, nread |-> c.nread, asked |-> c.asked,
   replyStarts |-> c.replyStarts, dstMatch |-> c.dstMatch, lateMut |-> c.lateMut,
   matches |-> c.matches]

NoReturn ==
  [did_update |-> "No", reason |-> "None", pre |-> "None", probes |-> <<>>,
   nread |-> 0, asked |-> 0, replyStarts |-> 0, dstMatch |-> FALSE, lateMut |-> FALSE,
   matches |-> {}]

\* the TTLs of the probes start_next_hop sent in one poll
RECURSIVE InitialTtls(_)
InitialTtls(ps) ==
  IF ps = <<>> THEN <<>>
  ELSE IF Head(ps).initial THEN <<Head(ps).ttl>> \o InitialTtls(Tail(ps))
  ELSE InitialTtls(Tail(ps))

(* ------------------------------ actions -------------------------------- *)
\* TraceConfig values explored
Configs(hopsChoices) ==
  [max_hops : hopsChoices, wait_time_per_hop : {0}, retry_frequency : {0},
   destination_timeout : {1}, completion_timeout : {1}]

\* Option<Trace>::None in Controller.traces
NoneTrace ==
  [active |-> FALSE, dst |-> NoIp, started |-> FALSE, pend |-> {}, left |-> 0, term |-> "None"]

\* no call of the controller has returned
NoEvent ==
  [call |-> "none", kind |-> "None", id |-> NoPos, reason |-> "None", error |-> "None",
   polled |-> NoPos, result |-> "None", offered |-> {}, visited |-> {}, nread |-> 0]

\* Controller::new
CtlIdle ==
  /\ traces = <<>>
  /\ next_id = 0
  /\ iter_cursor = 0
  /\ rx = <<>>
  /\ event = NoEvent

\* the WHOIS sources, in the order AsnFinder::poll lists them
Sources == <<"iana", "radb", "cymru">>
SourceNames == {Sources[k] : k \in 1..3}

\* no socket holds an unread line
NoInbox == [s \in SourceNames |-> <<>>]

\* no AsnFinder has been made
NoFinder == [made |-> FALSE]

\* no call of the resolver has returned
NoAnswer ==
  [call |-> "none", ret |-> "None", asn |-> NoneAsn, err |-> "None",
   reads |-> [s \in SourceNames |-> "None"],
   polls |-> [s \in SourceNames |-> "None"],
   results |-> [s \in SourceNames |-> [kind |-> "None", asn |-> NoneAsn]]]

\* before AsnFinder::lookup
WhoisIdle ==
  /\ finder = NoFinder
  /\ answer = NoAnswer
  /\ inbox = NoInbox

\* no packet has been built
NoWire ==
  [stage |-> "idle", dst |-> NoIp, ttl |-> 0, id |-> NoId, from |-> NoIp, kind |-> "None",
   packet |-> <<>>, frame |-> [ether |-> "None", packet |-> <<>>],
   result |-> NoFrame]

\* the channel has sent nothing
CodecIdle == wire = NoWire

\* Trace::new
Init ==
  /\ \/ config \in Configs(1..MaxHops) /\ overflow_checks = FALSE
     \/ config \in Configs({0}) /\ overflow_checks \in BOOLEAN  \* the builds differ here only
  /\ dst_ip = Ip9
  /\ state = NotStarted
  /\ hops_buffer = [i \in Slots |-> Unused]
  /\ used_hops = 0
  /\ asn_cache = [ip \in IPs |-> Absent]
  /\ chan = <<>>
  /\ now = 0
  /\ panicked = FALSE
  /\ initProbes = <<>>
  /\ ret = NoReturn
  /\ enable_ipv6 = TRUE
  /\ CtlIdle
  /\ WhoisIdle
  /\ CodecIdle

\* whether this poll evaluates max_hops - 1 with max_hops = 0
Underflows ==
  /\ config.max_hops = 0
  /\ \/ state.kind = "NotStarted"
     \/ state.kind = "OnHop"

\* the slots this poll can start: one by time, one more for each frame read
Startable ==
  IF state.kind \in {"NotStarted", "OnHop"}
  THEN {i \in Slots : used_hops <= i /\ i <= used_hops + Len(chan)}
  ELSE {}

\* the slots whose AsnFinder this poll can poll
Resolvable ==
  {i \in Slots :
     \/ hops_buffer[i].kind = "FindingAsn"
     \/ (chan # <<>> /\ hops_buffer[i].kind = "Pending")
     \/ (chan # <<>> /\ i \in Startable)}

\* one call of Trace::poll that returns
Poll ==
  /\ ~panicked
  /\ ~(overflow_checks /\ Underflows)
  /\ \E r \in [Startable -> Ids], f \in [Resolvable -> BOOLEAN] :
     \E c \in {PollCore(Ctx, [i \in Slots |-> IF i \in Startable THEN r[i] ELSE 0],
                          [i \in Slots |-> IF i \in Resolvable THEN f[i] ELSE FALSE], now)} :
       /\ ~c.capped
       /\ state' = c.st
       /\ hops_buffer' = c.hb
       /\ used_hops' = c.used
       /\ asn_cache' = c.cache
       /\ chan' = c.ch
       /\ initProbes' = initProbes \o InitialTtls(c.probes)
       /\ ret' = PollReturn(c, state.kind)
  /\ UNCHANGED <<config, overflow_checks, dst_ip, now, panicked>>
  /\ UNCHANGED ctlVars
  /\ UNCHANGED whoisVars
  /\ UNCHANGED codecVars

\* one call of Trace::poll that panics: max_hops - 1 overflows in start_next_hop
PollPanic ==
  /\ ~panicked
  /\ overflow_checks
  /\ Underflows
  /\ state.kind = "NotStarted"
  /\ panicked' = TRUE
  /\ ret' = NoReturn
  /\ UNCHANGED <<config, overflow_checks, dst_ip, state, hops_buffer, used_hops,
                 asn_cache, chan, now, initProbes>>
  /\ UNCHANGED ctlVars
  /\ UNCHANGED whoisVars
  /\ UNCHANGED codecVars

\* the network: a frame is captured on the interface
Deliver ==
  /\ ~panicked
  /\ Len(chan) < MaxChan
  /\ \E f \in Frames : chan' = Append(chan, f)
  /\ ret' = NoReturn
  /\ UNCHANGED <<config, overflow_checks, dst_ip, state, hops_buffer, used_hops,
                 asn_cache, now, panicked, initProbes>>
  /\ UNCHANGED ctlVars
  /\ UNCHANGED whoisVars
  /\ UNCHANGED codecVars

\* the clock advances
Tick ==
  /\ ~panicked
  /\ now < MaxTime
  /\ now' = now + 1
  /\ ret' = NoReturn
  /\ UNCHANGED <<config, overflow_checks, dst_ip, state, hops_buffer, used_hops,
                 asn_cache, chan, panicked, initProbes>>
  /\ UNCHANGED ctlVars
  /\ UNCHANGED whoisVars
  /\ UNCHANGED codecVars

Next == Poll \/ PollPanic \/ Deliver \/ Tick

Spec == Init /\ [][Next]_vars

(* ------------------ a route through a router without ASN ---------------- *)
\* the frames of a route whose routers are 8.8.8.8, public and unknown to
\* WHOIS, and the private 10.0.0.1
CacheFrames ==
  [kind : {"TimeExceeded"}, ip : {Ip8, Ip10}, id : Ids]
    \cup [kind : {"EchoReply"}, ip : {Ip9}, id : Ids]

\* Trace::new with max_hops = 3
CacheInit ==
  /\ config \in Configs({3}) /\ overflow_checks = FALSE
  /\ dst_ip = Ip9
  /\ state = NotStarted
  /\ hops_buffer = [i \in Slots |-> Unused]
  /\ used_hops = 0
  /\ asn_cache = [ip \in IPs |-> Absent]
  /\ chan = <<>>
  /\ now = 0
  /\ panicked = FALSE
  /\ initProbes = <<>>
  /\ ret = NoReturn
  /\ enable_ipv6 = TRUE
  /\ CtlIdle
  /\ WhoisIdle
  /\ CodecIdle

\* the network: a frame of this route is captured on the interface
DeliverOnRoute ==
  /\ Len(chan) < MaxChan
  /\ \E f \in CacheFrames : chan' = Append(chan, f)
  /\ ret' = NoReturn
  /\ UNCHANGED <<config, overflow_checks, dst_ip, state, hops_buffer, used_hops,
                 asn_cache, now, panicked, initProbes>>
  /\ UNCHANGED ctlVars
  /\ UNCHANGED whoisVars
  /\ UNCHANGED codecVars

CacheNext == Poll \/ DeliverOnRoute \/ Tick

CacheSpec == CacheInit /\ [][CacheNext]_vars

(* --------------------- a trace polled for ever ------------------------- *)
\* an Instant seen from one tick later, once the clock has reached MaxTime:
\* the code compares elapsed times with timeouts smaller than MaxTime only,
\* so that an Instant MaxTime ago stands for every earlier one
ShiftInstant(t) == IF t = NoTime THEN NoTime ELSE IF t > 0 THEN t - 1 ELSE 0

\* the clock advances beyond MaxTime: the Instants the trace holds grow older
ClockShift ==
  /\ ~panicked
  /\ now = MaxTime
  /\ state' = [state EXCEPT !.when = ShiftInstant(@), !.last_retry = ShiftInstant(@)]
  /\ ret' = NoReturn
  /\ UNCHANGED <<config, overflow_checks, dst_ip, hops_buffer, used_hops,
                 asn_cache, chan, now, panicked, initProbes>>
  /\ UNCHANGED ctlVars
  /\ UNCHANGED whoisVars
  /\ UNCHANGED codecVars

\* time passes
Advance == Tick \/ ClockShift

LiveNext == Poll \/ DeliverOnRoute \/ Tick \/ ClockShift

\* the trace of CacheSpec while time passes
LiveSpec == CacheInit /\ [][LiveNext]_vars /\ WF_vars(Advance)

(* ============================ the Controller =========================== *)
(* Controller of ktr_agent/src/controller.rs. A trace in a slot is kept as *)
(* what its two entry points perhaps_use_packet and non_packet_poll need:  *)
(* the ids of its Pending hops, whether it has started, the changes it can *)
(* still report and its termination reason.                                *)

\* slots that Controller.traces can grow to
MaxSlots == 3
\* frames that can wait in the controller's capture queue
MaxRx == 1
\* updates a started trace can still report from its non-packet step
MaxUpdates == 1

Ip6 == <<8193, 3512, 0, 0, 0, 0, 0, 1>>

Min(a, b) == IF a < b THEN a ELSE b

\* traces.len(), for traces kept as a function on 0..len-1
TLen(ts) == Cardinality(DOMAIN ts)

\* traces.push
Push(ts, t) == [i \in 0..TLen(ts) |-> IF i < TLen(ts) THEN ts[i] ELSE t]

\* Some(Trace::new(ip, config)) in a slot
SomeTrace(ip) ==
  [active |-> TRUE, dst |-> ip, started |-> FALSE, pend |-> {}, left |-> MaxUpdates,
   term |-> "None"]

\* the values of Result<(DidUpdate, Option<TerminationReason>), TraceError>
ResNo == [du |-> "No", reason |-> "None", err |-> "None"]
ResYes == [du |-> "Yes", reason |-> "None", err |-> "None"]
ResDone(reason) == [du |-> "Yes", reason |-> reason, err |-> "None"]
ResErr(kind) == [du |-> "No", reason |-> "None", err |-> kind]

\* the frames the network delivers to the controller's channel
CtlFrames ==
  [kind : {"TimeExceeded"}, ip : {Ip10}, id : Ids]
    \cup [kind : {"DestinationUnreachable"}, ip : {Ip9}, id : {NoId}]
    \cup [kind : {"Other"}, ip : {NoIp}, id : {NoId}]

\* TracerouteChannel::send_echo, the error it returns for a destination
SendEchoError(dst, ipv6) ==
  IF Len(dst) = 8 /\ ~ipv6 THEN "Ipv6Disabled" ELSE "None"

\* Trace::perhaps_use_packet: the packet-handling path of a trace. A reply
\* that carries the id of a Pending hop answers it, a Destination-Unreachable
\* from the destination terminates the trace, any other packet changes nothing;
\* sendfail tells whether the probe of the next hop fails to leave, quiet
\* whether the trace is in ReachedDestination, where poll returns
\* (DidUpdate::No, None) whatever poll_inner did (trace.rs:243-248)
perhaps_use_packet(tr, pkt, sendfail, quiet) ==
  IF tr.term # "None"
  THEN [tr |-> tr, res |-> ResDone(tr.term)]
  ELSE IF pkt.kind \in {"EchoReply", "TimeExceeded"} /\ pkt.id \in tr.pend
  THEN [tr |-> [tr EXCEPT !.pend = @ \ {pkt.id}],
        res |-> IF sendfail THEN ResErr("Ipv4ChannelIo") ELSE ResYes]
  ELSE IF pkt.kind = "DestinationUnreachable" /\ pkt.ip = tr.dst
  THEN [tr |-> [tr EXCEPT !.term = "DestinationUnreachable"],
        res |-> IF quiet THEN ResNo ELSE ResDone("DestinationUnreachable")]
  ELSE [tr |-> tr, res |-> ResNo]

\* the outcomes of the non-packet step of a started trace
Outcomes == {"idle", "update", "timeout", "fail"}

\* Trace::non_packet_poll: the time-driven transitions and the finder pass.
\* The first call sends the probe of hop 0 with id x; later calls do nothing
\* (idle), start a hop or finish a lookup (update), run into a timeout or find
\* every hop Done (timeout), or fail on I/O (fail)
non_packet_poll(tr, o, x, ipv6) ==
  IF tr.term # "None"
  THEN [tr |-> tr, res |-> ResDone(tr.term)]
  ELSE IF ~tr.started
  THEN IF SendEchoError(tr.dst, ipv6) # "None"
       THEN [tr |-> tr, res |-> ResErr(SendEchoError(tr.dst, ipv6))]
       ELSE [tr |-> [tr EXCEPT !.started = TRUE, !.pend = {x}], res |-> ResYes]
  ELSE IF o = "update" /\ tr.left > 0
  THEN [tr |-> [tr EXCEPT !.pend = @ \cup {x}, !.left = @ - 1], res |-> ResYes]
  ELSE IF o = "timeout"
  THEN LET reason == IF tr.pend = {} THEN "Done" ELSE "DestinationTimeout"
       IN [tr |-> [tr EXCEPT !.term = reason], res |-> ResDone(reason)]
  ELSE IF o = "fail"
  THEN [tr |-> tr, res |-> ResErr("Ipv4ChannelIo")]
  ELSE [tr |-> tr, res |-> ResNo]

\* the fields of the Controller one call of try_next works on, with the event
\* it returns
CtlCtx ==
  [traces |-> traces, next_id |-> next_id, iter_cursor |-> iter_cursor, rx |-> rx,
   returned |-> FALSE,
   ev |-> [NoEvent EXCEPT !.call = "try_next"]]

\* handle_poll_result, Ok((DidUpdate::No, _))
HandleNo(c, trace_id) == c

\* handle_poll_result, Ok((DidUpdate::Yes, None))
HandleUpdate(c, trace_id) ==
  [c EXCEPT !.returned = TRUE,
            !.ev.kind = "TraceUpdate", !.ev.id = trace_id]

\* handle_poll_result, Ok((DidUpdate::Yes, Some(termination_reason)))
HandleTermination(c, trace_id, reason) ==
  [c EXCEPT !.next_id = Min(c.iter_cursor, c.next_id),
            !.traces[trace_id] = NoneTrace,
            !.returned = TRUE,
            !.ev.kind = "TraceDone", !.ev.id = trace_id, !.ev.reason = reason]

\* an error that is reported while the trace stays in its slot
HandleErrorKeepsTrace(c, trace_id, error) ==
  [c EXCEPT !.next_id = Min(trace_id, c.next_id),
            !.returned = TRUE,
            !.ev.kind = "TraceDone", !.ev.id = trace_id, !.ev.error = error]

\* handle_poll_result, Err(error)
HandleError(c, trace_id, error) ==
  [c EXCEPT !.next_id = Min(trace_id, c.next_id),
            !.traces[trace_id] = NoneTrace,
            !.returned = TRUE,
            !.ev.kind = "TraceDone", !.ev.id = trace_id, !.ev.error = error]

\* handle_poll_result
handle_poll_result(c, trace_id, res) ==
  IF res.err # "None" THEN HandleError(c, trace_id, res.err)
  ELSE IF res.du = "No" THEN HandleNo(c, trace_id)
  ELSE IF res.reason = "None" THEN HandleUpdate(c, trace_id)
  ELSE HandleTermination(c, trace_id, res.reason)

\* what a poll of the trace in slot i returned, as the event remembers it
ResultName(res) ==
  IF res.err # "None" THEN "Err"
  ELSE IF res.du = "No" THEN "No"
  ELSE IF res.reason = "None" THEN "Update"
  ELSE "Terminated"

\* try_next, one turn of the packet loop: the trace in slot i is offered the
\* packet and its result handled (each intermediate value is bound once, as an
\* element of a one-element set)
OfferStep(c, i, pkt, sendfail, quiet) ==
  CHOOSE c2 \in {handle_poll_result([c EXCEPT !.traces[i] = r.tr,
                                              !.ev.offered = @ \cup {i},
                                              !.ev.polled = i,
                                              !.ev.result = ResultName(r.res)], i, r.res) :
                   r \in {perhaps_use_packet(c.traces[i], pkt, sendfail, quiet)}} : TRUE

\* try_next, the loop that offers the packet to the traces from slot i on
RECURSIVE OfferPacket(_, _, _, _, _)
OfferPacket(c, i, pkt, sendfail, quiet) ==
  IF i >= TLen(c.traces) THEN c
  ELSE IF c.traces[i].active
  THEN CHOOSE c3 \in {IF c2.returned THEN c2 ELSE OfferPacket(c2, i + 1, pkt, sendfail, quiet) :
                        c2 \in {OfferStep(c, i, pkt, sendfail, quiet)}} : TRUE
  ELSE OfferPacket(c, i + 1, pkt, sendfail, quiet)

\* try_next, one turn of the round-robin loop before the cursor moves: the
\* trace under the cursor, if there is one, is polled and its result handled
VisitStep(c, o, x) ==
  IF c.traces[c.iter_cursor].active
  THEN CHOOSE c2 \in {handle_poll_result([c EXCEPT !.traces[c.iter_cursor] = r.tr,
                                                   !.ev.visited = @ \cup {c.iter_cursor},
                                                   !.ev.polled = c.iter_cursor,
                                                   !.ev.result = ResultName(r.res)],
                                          c.iter_cursor, r.res) :
                        r \in {non_packet_poll(c.traces[c.iter_cursor], o[c.iter_cursor],
                                               x, enable_ipv6)}} : TRUE
  ELSE c

\* try_next, the cursor moves on: the loop ends when it is back at start_cursor
RECURSIVE RoundRobin(_, _, _, _)
AdvanceCursor(c2, start_cursor, o, x) ==
  CHOOSE c4 \in {IF c3.iter_cursor = start_cursor THEN c3
                  ELSE RoundRobin(c3, start_cursor, o, x) :
                   c3 \in {[c2 EXCEPT !.iter_cursor = (@ + 1) % TLen(c2.traces)]}} : TRUE

\* try_next, the round-robin loop; o[i] is the outcome of the non-packet step
\* of the trace in slot i and x the id its next probe draws
RoundRobin(c, start_cursor, o, x) ==
  CHOOSE c4 \in {IF c2.returned THEN c2 ELSE AdvanceCursor(c2, start_cursor, o, x) :
                   c2 \in {VisitStep(c, o, x)}} : TRUE

\* try_next, the channel is polled and the packet it gave offered to the traces
PacketPass(c, sendfail, quiet) ==
  CHOOSE c1 \in {IF r.res # NoFrame
                  THEN OfferPacket([c EXCEPT !.rx = r.rest, !.ev.nread = r.n], 0, r.res, sendfail, quiet)
                  ELSE [c EXCEPT !.rx = r.rest, !.ev.nread = r.n] :
                   r \in {ChannelPoll(c.rx)}} : TRUE

\* Controller::try_next
try_next(c, o, x, sendfail, quiet) ==
  IF TLen(c.traces) = 0 THEN c
  ELSE CHOOSE c2 \in {IF c1.returned THEN c1 ELSE RoundRobin(c1, c1.iter_cursor, o, x) :
                        c1 \in {PacketPass(c, sendfail, quiet)}} : TRUE

\* start_trace, the loop that picks the next id after slot id was filled
RECURSIVE PickNextId(_, _)
PickNextId(ts, i) ==
  IF i = TLen(ts) \/ ~ts[i].active THEN i ELSE PickNextId(ts, i + 1)

\* Controller::start_trace
start_trace(c, ip) ==
  IF c.next_id < TLen(c.traces)
  THEN LET id == c.next_id
           ts == [c.traces EXCEPT ![id] = SomeTrace(ip)]
       IN [c EXCEPT !.traces = ts, !.next_id = PickNextId(ts, id + 1),
                    !.ev = [NoEvent EXCEPT !.call = "start_trace", !.kind = "Started", !.id = id]]
  ELSE LET ts == Push(c.traces, SomeTrace(ip))
       IN [c EXCEPT !.traces = ts, !.next_id = TLen(ts),
                    !.ev = [NoEvent EXCEPT !.call = "start_trace", !.kind = "Started",
                                           !.id = TLen(ts) - 1]]

\* the state of the single trace of Spec, which the controller does not use
TraceIdle ==
  /\ config \in Configs({1})
  /\ overflow_checks = FALSE
  /\ dst_ip = Ip9
  /\ state = NotStarted
  /\ hops_buffer = [i \in Slots |-> Unused]
  /\ used_hops = 0
  /\ asn_cache = [ip \in IPs |-> Absent]
  /\ chan = <<>>
  /\ now = 0
  /\ panicked = FALSE
  /\ initProbes = <<>>
  /\ ret = NoReturn

\* Controller::new, over a channel opened with or without IPv6
CtlInit ==
  /\ TraceIdle
  /\ enable_ipv6 \in BOOLEAN
  /\ CtlIdle
  /\ WhoisIdle
  /\ CodecIdle

\* the slots that hold a trace
ActiveSlots == {i \in DOMAIN traces : traces[i].active}

\* a call of Controller::start_trace
StartTrace ==
  /\ next_id < TLen(traces) \/ TLen(traces) < MaxSlots
  /\ \E ip \in {Ip9, Ip6} :
     \E c \in {start_trace(CtlCtx, ip)} :
       /\ traces' = c.traces
       /\ next_id' = c.next_id
       /\ event' = c.ev
  /\ UNCHANGED <<enable_ipv6, iter_cursor, rx>>
  /\ UNCHANGED traceVars
  /\ UNCHANGED whoisVars
  /\ UNCHANGED codecVars

\* the outcomes of the non-packet steps of one call of try_next: the loop
\* stops at the first trace that reports something, so one slot w at most has
\* an outcome other than idle
OutcomeChoices ==
  {[i \in DOMAIN traces |-> "idle"]}
    \cup {[i \in DOMAIN traces |-> IF i = w THEN a ELSE "idle"] :
            w \in {i \in ActiveSlots : traces[i].started}, a \in Outcomes \ {"idle"}}

\* a call of Controller::try_next
TryNext ==
  /\ \E o \in OutcomeChoices, x \in Ids, sendfail \in {b \in BOOLEAN : b => rx # <<>>},
        quiet \in {b \in BOOLEAN :
                     b => (rx # <<>> /\ Head(rx).kind = "DestinationUnreachable")} :
     \E c \in {try_next(CtlCtx, o, x, sendfail, quiet)} :
       /\ traces' = c.traces
       /\ next_id' = c.next_id
       /\ iter_cursor' = c.iter_cursor
       /\ rx' = c.rx
       /\ event' = c.ev
  /\ UNCHANGED enable_ipv6
  /\ UNCHANGED traceVars
  /\ UNCHANGED whoisVars
  /\ UNCHANGED codecVars

\* the network: a frame is captured on the controller's interface
Capture ==
  /\ Len(rx) < MaxRx
  /\ \E f \in CtlFrames : rx' = Append(rx, f)
  /\ event' = NoEvent
  /\ UNCHANGED <<enable_ipv6, traces, next_id, iter_cursor>>
  /\ UNCHANGED traceVars
  /\ UNCHANGED whoisVars
  /\ UNCHANGED codecVars

CtlNext == StartTrace \/ TryNext \/ Capture

CtlSpec == CtlInit /\ [][CtlNext]_vars

\* the loop of main.rs calls try_next again and again
CtlFairSpec == CtlSpec /\ WF_vars(TryNext)

(* ========================== the WHOIS resolver ========================= *)
(* AsnFinder of ktr_lib/src/whois_net.rs. A text is the sequence of its    *)
(* runs of digits (a number) and of other characters (a string), blanks    *)
(* left out; a line is cut at its first ':' or '|' into left and right.    *)
(* An Option<String> is a sequence of at most one text.                    *)

\* a run of characters that are not digits, and a run of digits
Word(w) == [digits |-> FALSE, w |-> w, n |-> 0]
Digits(n) == [digits |-> TRUE, w |-> "", n |-> n]

\* lines a server sends
WhoisLines ==
  { [sep |-> ":", left |-> <<Word("OriginAS")>>, right |-> <<Word("AS"), Digits(64503)>>],
    [sep |-> ":", left |-> <<Word("origin")>>, right |-> <<Word("AS"), Digits(64501)>>],
    [sep |-> ":", left |-> <<Word("refer")>>, right |-> <<Word("whois.example.net")>>],
    [sep |-> ":", left |-> <<Word("whois")>>, right |-> <<Word("whois.example.org")>>],
    [sep |-> "|", left |-> <<Digits(64502)>>, right |-> <<Word("9.9.9.0/24")>>],
    [sep |-> "|", left |-> <<Word("AS")>>, right |-> <<Word("IP")>>] }

NoLine == [sep |-> "", left |-> <<>>, right |-> <<>>]

\* io::ErrorKind values a read returns
ReadErrors == {"WouldBlock", "TimedOut", "ConnectionReset"}

\* AsnResult
AsnPending == [kind |-> "Pending", asn |-> NoneAsn]
AsnFound(asn) == [kind |-> "Found", asn |-> asn]
AsnNotFound == [kind |-> "NotFound", asn |-> NoneAsn]

\* Result<AsnResult, io::Error> of a server's poll
PollOk(srv, val) == [srv |-> srv, ok |-> TRUE, val |-> val, error |-> "None"]
PollErr(srv, error) ==
  [srv |-> srv, ok |-> FALSE, val |-> [kind |-> "Err", asn |-> NoneAsn], error |-> error]

\* try_parse_asn_unprefixed: the text is one run of digits
try_parse_asn_unprefixed(text) ==
  IF Len(text) = 1 /\ text[1].digits THEN text[1].n ELSE NoneAsn

\* try_parse_asn_prefixed: what follows the first "AS" is parsed
try_parse_asn_prefixed(text) ==
  IF \E i \in DOMAIN text : text[i] = Word("AS")
  THEN LET i == CHOOSE i \in DOMAIN text :
                  text[i] = Word("AS") /\ \A j \in 1..(i - 1) : text[j] # Word("AS")
       IN try_parse_asn_unprefixed(SubSeq(text, i + 1, Len(text)))
  ELSE NoneAsn

\* try_parse_asn_ignore_prefix
try_parse_asn_ignore_prefix(text) ==
  IF try_parse_asn_prefixed(text) # NoneAsn THEN try_parse_asn_prefixed(text)
  ELSE try_parse_asn_unprefixed(text)

\* ASCII lower case of the keys the servers send
LowerCase(text) ==
  [i \in DOMAIN text |-> IF text[i] = Word("OriginAS") THEN Word("originas") ELSE text[i]]

\* key.eq_ignore_ascii_case(name)
eq_ignore_ascii_case(key, name) == LowerCase(key) = <<Word(name)>>

\* Option::None for a server of the finder
NoServer ==
  [open |-> FALSE, server |-> "", closed |-> FALSE,
   line_origin |-> NoneAsn, line_refer |-> <<>>, line_whois |-> <<>>]

\* NormalAsnServer::connect and CymruAsnServer::connect, when whois_connect succeeds
Connect(server) ==
  [open |-> TRUE, server |-> server, closed |-> FALSE,
   line_origin |-> NoneAsn, line_refer |-> <<>>, line_whois |-> <<>>]

\* the server a source of the finder first connects to
FirstServer(name) ==
  IF name = "iana" THEN "whois.iana.org"
  ELSE IF name = "radb" THEN "whois.radb.net"
  ELSE "whois.cymru.com"

\* what lines.next() gives: a line, an error or the end of the stream; connect
\* tells whether a whois_connect made by this poll succeeds
ReadLine(line) == [kind |-> "Line", line |-> line, error |-> "None", connect |-> TRUE]
ReadErr(error) == [kind |-> "Err", line |-> NoLine, error |-> error, connect |-> TRUE]
ReadEof(connect) == [kind |-> "Eof", line |-> NoLine, error |-> "None", connect |-> connect]
NoRead == [kind |-> "None", line |-> NoLine, error |-> "None", connect |-> TRUE]

\* NormalAsnServer::poll, Some(Ok(line))
NormalLine(s, line) ==
  IF line.sep = ":"
  THEN IF eq_ignore_ascii_case(line.left, "originas")
       THEN IF try_parse_asn_ignore_prefix(line.right) # NoneAsn
            THEN PollOk(s, AsnFound(try_parse_asn_ignore_prefix(line.right)))
            ELSE PollOk(s, AsnPending)
       ELSE IF eq_ignore_ascii_case(line.left, "origin")
       THEN IF try_parse_asn_ignore_prefix(line.right) # NoneAsn
            THEN PollOk([s EXCEPT !.line_origin = try_parse_asn_ignore_prefix(line.right)],
                        AsnPending)
            ELSE PollOk(s, AsnPending)
       ELSE IF eq_ignore_ascii_case(line.left, "refer")
       THEN PollOk([s EXCEPT !.line_refer = <<line.right>>], AsnPending)
       ELSE IF eq_ignore_ascii_case(line.left, "whois")
       THEN PollOk([s EXCEPT !.line_whois = <<line.right>>], AsnPending)
       ELSE PollOk(s, AsnPending)
  ELSE PollOk(s, AsnPending)

\* NormalAsnServer::poll, the test that makes a read error the poll's error
NormalReturnsError(kind) == kind # "WouldBlock" \/ kind = "TimedOut"

\* NormalAsnServer::poll, Some(Err(error))
NormalError(s, error) ==
  IF NormalReturnsError(error) THEN PollErr(s, error) ELSE PollOk(s, AsnPending)

\* NormalAsnServer::poll, the reconnection to the server a refer or whois line named
Redirect(s, host, connect) ==
  IF connect THEN PollOk(Connect(host[1][1].w), AsnPending)
  ELSE PollErr(s, "ConnectFailed")

\* an end of stream at which the whois server is preferred to the refer server
NormalEndWhoisFirst(s, connect) ==
  IF s.line_origin # NoneAsn THEN PollOk(s, AsnFound(s.line_origin))
  ELSE IF s.line_whois # <<>> THEN Redirect(s, s.line_whois, connect)
  ELSE IF s.line_refer # <<>> THEN Redirect(s, s.line_refer, connect)
  ELSE PollOk(s, AsnNotFound)

\* NormalAsnServer::poll, None: the server closed the stream
NormalEnd(s, connect) ==
  IF s.line_origin # NoneAsn THEN PollOk(s, AsnFound(s.line_origin))
  ELSE IF s.line_refer # <<>> THEN Redirect(s, s.line_refer, connect)
  ELSE IF s.line_whois # <<>> THEN Redirect(s, s.line_whois, connect)
  ELSE PollOk(s, AsnNotFound)

\* NormalAsnServer::poll
NormalPoll(s, rd) ==
  IF rd.kind = "Line" THEN NormalLine(s, rd.line)
  ELSE IF rd.kind = "Err" THEN NormalError(s, rd.error)
  ELSE NormalEnd([s EXCEPT !.closed = TRUE], rd.connect)

\* CymruAsnServer::poll, the test that makes a read error no data yet
CymruIsTransient(kind) == kind = "WouldBlock" \/ kind = "TimedOut"

\* CymruAsnServer::poll
CymruPoll(s, rd) ==
  IF rd.kind = "Line"
  THEN IF rd.line.sep = "|" /\ try_parse_asn_unprefixed(rd.line.left) # NoneAsn
       THEN PollOk(s, AsnFound(try_parse_asn_unprefixed(rd.line.left)))
       ELSE PollOk(s, AsnPending)
  ELSE IF rd.kind = "Err"
  THEN IF CymruIsTransient(rd.error) THEN PollOk(s, AsnPending) ELSE PollErr(s, rd.error)
  ELSE PollOk([s EXCEPT !.closed = TRUE], AsnNotFound)

\* s.poll() of the source called name
ServerPoll(name, s, rd) ==
  IF ~s.open THEN PollOk(s, [kind |-> "None", asn |-> NoneAsn])
  ELSE IF name = "cymru" THEN CymruPoll(s, rd)
  ELSE NormalPoll(s, rd)

\* a source whose error is kept in the results
SourceResultKeepsError(s, p) ==
  IF s.open THEN p.val ELSE AsnNotFound

\* AsnFinder::poll, .and_then(|s| s.poll().ok()).unwrap_or(AsnResult::NotFound)
SourceResult(s, p) ==
  IF s.open /\ p.ok THEN p.val ELSE AsnNotFound

\* an aggregation in which the last source that found an ASN wins
AggregateLastWins(results) ==
  IF \E k \in 1..3 : results[k].kind = "Found"
  THEN results[CHOOSE k \in 1..3 :
                 results[k].kind = "Found" /\ \A j \in (k + 1)..3 : results[j].kind # "Found"]
  ELSE IF \A k \in 1..3 : results[k].kind = "NotFound" THEN AsnNotFound
  ELSE AsnPending

\* AsnFinder::poll, from the results of the three sources to the answer
Aggregate(results) ==
  IF \E k \in 1..3 : results[k].kind = "Found"
  THEN results[CHOOSE k \in 1..3 :
                 results[k].kind = "Found" /\ \A j \in 1..(k - 1) : results[j].kind # "Found"]
  ELSE IF \A k \in 1..3 : results[k].kind = "NotFound" THEN AsnNotFound
  ELSE AsnPending

\* AsnFinder::poll, the error it returns: none, as no result holds one
FinderError(results) ==
  IF \E k \in 1..3 : results[k].kind = "Err" THEN "Io" ELSE "None"

\* a lookup that fails when no source can be connected
AsnFinderLookupNeedsSource(up) ==
  IF \A name \in SourceNames : ~up[name] THEN NoFinder
  ELSE [made |-> TRUE,
        iana |-> IF up["iana"] THEN Connect(FirstServer("iana")) ELSE NoServer,
        radb |-> IF up["radb"] THEN Connect(FirstServer("radb")) ELSE NoServer,
        cymru |-> IF up["cymru"] THEN Connect(FirstServer("cymru")) ELSE NoServer]

\* AsnFinder::lookup; up[name] tells whether the connection to the source succeeds
AsnFinderLookup(up) ==
  [made |-> TRUE,
   iana |-> IF up["iana"] THEN Connect(FirstServer("iana")) ELSE NoServer,
   radb |-> IF up["radb"] THEN Connect(FirstServer("radb")) ELSE NoServer,
   cymru |-> IF up["cymru"] THEN Connect(FirstServer("cymru")) ELSE NoServer]

\* AsnFinder::poll; rd[name] is what the read of the source gives
AsnFinderPoll(f, rd) ==
  LET p == [name \in SourceNames |-> ServerPoll(name, f[name], rd[name])]
      results == [k \in 1..3 |-> SourceResult(f[Sources[k]], p[Sources[k]])]
      a == Aggregate(results)
  IN [finder |-> [made |-> TRUE, iana |-> p["iana"].srv, radb |-> p["radb"].srv,
                  cymru |-> p["cymru"].srv],
      answer |-> [call |-> "poll",
                  ret |-> IF FinderError(results) = "None" THEN a.kind ELSE "Err",
                  asn |-> a.asn, err |-> FinderError(results),
                  reads |-> [name \in SourceNames |->
                               IF ~f[name].open THEN "None"
                               ELSE IF rd[name].kind = "Err" THEN rd[name].error
                               ELSE IF rd[name].kind = "Eof" /\ ~p[name].ok THEN "ConnectFailed"
                               ELSE rd[name].kind],
                  polls |-> [name \in SourceNames |->
                               IF ~f[name].open THEN "None" ELSE p[name].val.kind],
                  results |-> [name \in SourceNames |->
                                 results[CHOOSE k \in 1..3 : Sources[k] = name]]]]

\* whether a poll that finds the stream of s closed connects to another server
Redirects(s) == s.line_origin = NoneAsn /\ (s.line_refer # <<>> \/ s.line_whois # <<>>)

\* what the read of a source can give in this state: a closed stream stays
\* closed, and a connection can fail only where one is made
Reads(s) ==
  IF ~s.open THEN {NoRead}
  ELSE {ReadEof(b) : b \in {c \in BOOLEAN : ~c => Redirects(s)}}
         \cup (IF s.closed THEN {}
               ELSE {ReadLine(l) : l \in WhoisLines} \cup {ReadErr(e) : e \in ReadErrors})

\* the trace and the controller are not used by the resolver
WhoisInit ==
  /\ TraceIdle
  /\ enable_ipv6 = TRUE
  /\ CtlIdle
  /\ WhoisIdle
  /\ CodecIdle

\* a call of AsnFinder::lookup (trace.rs, a public hop whose ip is not cached)
Lookup ==
  /\ ~finder.made
  /\ \E up \in [SourceNames -> BOOLEAN] :
     \E f \in {AsnFinderLookup(up)} :
       /\ finder' = f
       /\ answer' = [NoAnswer EXCEPT !.call = "lookup",
                       !.ret = IF f.made THEN "Ok" ELSE "Err",
                       !.reads = [name \in SourceNames |->
                                    IF up[name] THEN "Connected" ELSE "ConnectFailed"]]
  /\ UNCHANGED inbox
  /\ UNCHANGED <<traceVars, ctlVars, codecVars>>

\* a call of AsnFinder::poll (trace.rs, the pass over the FindingAsn hops),
\* made when the caller has dealt with the answer of the call before
FinderPoll ==
  /\ finder.made
  /\ answer.call # "poll"
  /\ \E rd \in [iana : Reads(finder.iana), radb : Reads(finder.radb),
                cymru : Reads(finder.cymru)] :
     \E r \in {AsnFinderPoll(finder, rd)} :
       /\ finder' = r.finder
       /\ answer' = r.answer
  /\ UNCHANGED inbox
  /\ UNCHANGED <<traceVars, ctlVars, codecVars>>

\* the caller on Found or NotFound: the hop becomes Done and its finder is dropped
FinderDrop ==
  /\ answer.call = "poll"
  /\ answer.ret \in {"Found", "NotFound"}
  /\ finder' = NoFinder
  /\ answer' = NoAnswer
  /\ inbox' = NoInbox
  /\ UNCHANGED <<traceVars, ctlVars, codecVars>>

\* the caller on Pending: the hop stays FindingAsn and keeps its finder
FinderKeep ==
  /\ answer.call = "poll"
  /\ answer.ret = "Pending"
  /\ answer' = NoAnswer
  /\ UNCHANGED <<finder, inbox>>
  /\ UNCHANGED <<traceVars, ctlVars, codecVars>>

WhoisNext == Lookup \/ FinderPoll \/ FinderDrop \/ FinderKeep

WhoisSpec == WhoisInit /\ [][WhoisNext]_vars

\* the pass over the FindingAsn hops deals with the answer of each poll of
\* the finder before the poll of the trace returns
WhoisFairSpec == WhoisSpec /\ WF_vars(FinderKeep)

(* ------------- the resolver over sockets that buffer lines ------------- *)
\* the lines a server of the source sends while its stream is open
InboxLines(name) ==
  IF name = "iana"
  THEN {l \in WhoisLines : l.sep = ":" /\ l.left \in {<<Word("OriginAS")>>, <<Word("origin")>>}}
  ELSE IF name = "cymru" THEN {l \in WhoisLines : l.sep = "|"}
  ELSE {}

\* the network: a line arrives on the socket of a connected source
Receive ==
  /\ finder.made
  /\ \E name \in SourceNames :
       /\ finder[name].open
       /\ Len(inbox[name]) < MaxInbox
       /\ \E l \in InboxLines(name) : inbox' = [inbox EXCEPT ![name] = Append(@, l)]
  /\ UNCHANGED <<finder, answer>>
  /\ UNCHANGED <<traceVars, ctlVars, codecVars>>

\* what lines.next() gives on a non-blocking socket: the oldest unread line,
\* or WouldBlock when none has been received
NextRead(name) ==
  IF ~finder[name].open THEN NoRead
  ELSE IF inbox[name] # <<>> THEN ReadLine(Head(inbox[name]))
  ELSE ReadErr("WouldBlock")

\* a call of AsnFinder::poll whose reads take what the sockets hold
InboxPoll ==
  /\ finder.made
  /\ answer.call # "poll"
  /\ \E r \in {AsnFinderPoll(finder, [name \in SourceNames |-> NextRead(name)])} :
       /\ finder' = r.finder
       /\ answer' = r.answer
  /\ inbox' = [name \in SourceNames |->
                 IF finder[name].open /\ inbox[name] # <<>> THEN Tail(inbox[name])
                 ELSE inbox[name]]
  /\ UNCHANGED <<traceVars, ctlVars, codecVars>>

InboxNext == Lookup \/ Receive \/ InboxPoll \/ FinderDrop \/ FinderKeep

InboxSpec == WhoisInit /\ [][InboxNext]_vars

(* ===================== the packets of the channel ====================== *)
(* TracerouteChannel of ktr_lib/src/traceroute_net.rs. A packet is the     *)
(* sequence of its 16-bit words in network order, a frame is a packet with *)
(* the ethertype of the Ethernet header that carried it.                   *)

\* PacketId values the round trip is made with (PacketId is a u16)
CodecIds == {0, 1, 8, 255, 256, 65535}
\* TTLs of the Echo Requests
CodecTtls == {1, 2, 64}

\* next-level protocol numbers and ICMP types (pnet)
ProtoIcmp == 1
ProtoIcmpv6 == 58
IcmpEchoRequest == 8
IcmpEchoReply == 0
IcmpTimeExceededType == 11
Icmpv6EchoRequest == 128
Icmpv6EchoReply == 129
Icmpv6TimeExceededType == 3
\* sizes in 16-bit words: the IPv4 header, the IPv6 header, an echo message,
\* the header of a Time-Exceeded message
Ipv4Words == 10
Ipv6Words == 20
EchoWords == 4
TimeExceededWords == 4

\* the host that runs the channel, and the routers on the way
Host4 == <<192, 0, 2, 7>>
Host6 == <<8193, 3512, 0, 0, 0, 0, 0, 7>>
Router6 == <<8193, 3512, 0, 0, 0, 0, 0, 2>>

\* an Ipv4Addr as two words, and back
V4Words(ip) == <<ip[1] * 256 + ip[2], ip[3] * 256 + ip[4]>>
V4Addr(w) == <<w[1] \div 256, w[1] % 256, w[2] \div 256, w[2] % 256>>

\* MutableIpv4Packet as send_echo fills it: version 4, header length 5, total
\* length, identification, Don't-Fragment, ttl, protocol, source, destination
Ipv4Header(src, dst, ttl, id, proto, words) ==
  <<17664, 2 * words, id, 16384, ttl * 256 + proto, 0>> \o V4Words(src) \o V4Words(dst)

\* MutableIpv6Packet as send_echo fills it: version 6, flow label (20 bits),
\* payload length, next header, hop limit, source, destination
Ipv6Header(src, dst, hop_limit, flow_label, next_header, words) ==
  <<24576 + (flow_label \div 65536), flow_label % 65536, 2 * words,
    next_header * 256 + hop_limit>> \o src \o dst

\* an echo message: type and code, checksum, identifier, sequence number
EchoMessage(type, id, seq) == <<type * 256, 0, id, seq>>

\* TracerouteChannel::send_echo, the packet handed to the sender
EchoRequest(dst, ttl, id, seq) ==
  IF Len(dst) = 4
  THEN Ipv4Header(<<0, 0, 0, 0>>, dst, ttl, id, ProtoIcmp, Ipv4Words + EchoWords)
         \o EchoMessage(IcmpEchoRequest, id, seq)
  ELSE Ipv6Header(<<0, 0, 0, 0, 0, 0, 0, 0>>, dst, ttl, id, ProtoIcmpv6, EchoWords)
         \o EchoMessage(Icmpv6EchoRequest, id, seq)

\* the network: the Time-Exceeded message of a router, which quotes the
\* packet that expired after the 8 bytes of its own header
TimeExceededFrame(router, request) ==
  IF Len(router) = 4
  THEN [ether |-> "Ipv4",
        packet |-> Ipv4Header(router, Host4, 64, 0, ProtoIcmp,
                              Ipv4Words + TimeExceededWords + Len(request))
                     \o <<IcmpTimeExceededType * 256, 0, 0, 0>> \o request]
  ELSE [ether |-> "Ipv6",
        packet |-> Ipv6Header(router, Host6, 64, 0, ProtoIcmpv6,
                              TimeExceededWords + Len(request))
                     \o <<Icmpv6TimeExceededType * 256, 0, 0, 0>> \o request]

\* the network: the Echo Reply of the destination, which copies identifier
\* and sequence number of the request
EchoReplyFrame(dst, request) ==
  IF Len(dst) = 4
  THEN [ether |-> "Ipv4",
        packet |-> Ipv4Header(dst, Host4, 64, 0, ProtoIcmp, Ipv4Words + EchoWords)
                     \o EchoMessage(IcmpEchoReply, request[Ipv4Words + 3],
                                    request[Ipv4Words + 4])]
  ELSE [ether |-> "Ipv6",
        packet |-> Ipv6Header(dst, Host6, 64, 0, ProtoIcmpv6, EchoWords)
                     \o EchoMessage(Icmpv6EchoReply, request[Ipv6Words + 3],
                                    request[Ipv6Words + 4])]

\* Ipv4Packet::new(bytes) and the getters poll uses; None for a buffer
\* shorter than the header
Ipv4Fits(packet) == Len(packet) >= Ipv4Words
get_identification(packet) == packet[3]
Ipv4Source(packet) == V4Addr(SubSeq(packet, 7, 8))
Ipv4Protocol(packet) == packet[5] % 256
Ipv4Payload(packet) == SubSeq(packet, Ipv4Words + 1, Len(packet))

\* Ipv6Packet::new(bytes) and the getters poll uses
Ipv6Fits(packet) == Len(packet) >= Ipv6Words
Ipv6Source(packet) == SubSeq(packet, 5, 12)
Ipv6NextHeader(packet) == packet[4] \div 256
Ipv6Payload(packet) == SubSeq(packet, Ipv6Words + 1, Len(packet))

\* the type of an ICMP or ICMPv6 message, the identifier of an echo message
\* and the payload of a Time-Exceeded message
IcmpType(msg) == msg[1] \div 256
get_identifier(msg) == msg[3]
TimeExceededPayload(msg) == SubSeq(msg, TimeExceededWords + 1, Len(msg))

\* TracerouteChannel::poll, the closure that classifies the frame, IPv4 arm
ClassifyIpv4(packet) ==
  IF ~Ipv4Fits(packet) \/ Ipv4Protocol(packet) # ProtoIcmp
       \/ Len(Ipv4Payload(packet)) < EchoWords
  THEN NoFrame
  ELSE IF IcmpType(Ipv4Payload(packet)) = IcmpEchoReply
  THEN [kind |-> "EchoReply", ip |-> Ipv4Source(packet),
        id |-> get_identifier(Ipv4Payload(packet))]
  ELSE IF IcmpType(Ipv4Payload(packet)) = IcmpTimeExceededType
  THEN IF Ipv4Fits(TimeExceededPayload(Ipv4Payload(packet)))
       THEN [kind |-> "TimeExceeded", ip |-> Ipv4Source(packet),
             id |-> get_identification(TimeExceededPayload(Ipv4Payload(packet)))]
       ELSE NoFrame
  ELSE NoFrame

\* TracerouteChannel::poll, the IPv6 arm: the packet quoted by a
\* Time-Exceeded message is read with Ipv4Packet
ClassifyIpv6(packet) ==
  IF ~Ipv6Fits(packet) \/ Ipv6NextHeader(packet) # ProtoIcmpv6
       \/ Len(Ipv6Payload(packet)) < EchoWords
  THEN NoFrame
  ELSE IF IcmpType(Ipv6Payload(packet)) = Icmpv6EchoReply
  THEN [kind |-> "EchoReply", ip |-> Ipv6Source(packet),
        id |-> get_identifier(Ipv6Payload(packet))]
  ELSE IF IcmpType(Ipv6Payload(packet)) = Icmpv6TimeExceededType
  THEN IF Ipv4Fits(TimeExceededPayload(Ipv6Payload(packet)))
       THEN [kind |-> "TimeExceeded", ip |-> Ipv6Source(packet),
             id |-> get_identification(TimeExceededPayload(Ipv6Payload(packet)))]
       ELSE NoFrame
  ELSE NoFrame

\* TracerouteChannel::poll, from the frame to the TracerouteResult
Classify(frame) ==
  IF frame.ether = "Ipv4" THEN ClassifyIpv4(frame.packet)
  ELSE IF frame.ether = "Ipv6" THEN ClassifyIpv6(frame.packet)
  ELSE NoFrame

\* the channel alone: the trace, the controller and the resolver are not used
CodecInit ==
  /\ TraceIdle
  /\ enable_ipv6 = TRUE
  /\ CtlIdle
  /\ WhoisIdle
  /\ CodecIdle

\* a call of TracerouteChannel::send_echo
SendEcho ==
  /\ wire.stage = "idle"
  /\ \E dst \in {Ip9, Ip6}, ttl \in CodecTtls, id \in CodecIds, seq \in {1} :
       wire' = [wire EXCEPT !.stage = "sent", !.dst = dst, !.ttl = ttl, !.id = id,
                            !.packet = EchoRequest(dst, ttl, id, seq)]
  /\ UNCHANGED <<traceVars, ctlVars, whoisVars>>

\* the network: a router on the way answers with Time-Exceeded
RouterAnswers ==
  /\ wire.stage = "sent"
  /\ \E router \in (IF Len(wire.dst) = 4 THEN {Ip10} ELSE {Router6}) :
       wire' = [wire EXCEPT !.stage = "replied", !.from = router, !.kind = "TimeExceeded",
                            !.frame = TimeExceededFrame(router, wire.packet)]
  /\ UNCHANGED <<traceVars, ctlVars, whoisVars>>

\* the network: the destination answers with an Echo Reply
DestinationAnswers ==
  /\ wire.stage = "sent"
  /\ wire' = [wire EXCEPT !.stage = "replied", !.from = wire.dst, !.kind = "EchoReply",
                          !.frame = EchoReplyFrame(wire.dst, wire.packet)]
  /\ UNCHANGED <<traceVars, ctlVars, whoisVars>>

\* a call of TracerouteChannel::poll that reads the frame
ChannelClassifies ==
  /\ wire.stage = "replied"
  /\ wire' = [wire EXCEPT !.stage = "polled", !.result = Classify(wire.frame)]
  /\ UNCHANGED <<traceVars, ctlVars, whoisVars>>

CodecNext == SendEcho \/ RouterAnswers \/ DestinationAnswers \/ ChannelClassifies

CodecSpec == CodecInit /\ [][CodecNext]_vars

(* ============================ properties =============================== *)

\* C1: in every reachable state no two hops that are Pending at the same time
\* hold the same PacketId.
PendingIdsUnique ==
  \A i, j \in Slots :
    (i < j /\ j < used_hops
       /\ hops_buffer[i].kind = "Pending" /\ hops_buffer[j].kind = "Pending")
      => hops_buffer[i].id # hops_buffer[j].id

HopRank(h) ==
  IF h.kind = "Unused" THEN 0
  ELSE IF h.kind = "Pending" THEN 1
  ELSE IF h.kind = "FindingAsn" THEN 2
  ELSE 3

\* C2: every step moves each hop slot forward only along Unused -> Pending ->
\* (FindingAsn ->) Done: a Done hop never changes, a FindingAsn hop keeps its
\* ip until it is Done, a Pending hop keeps its id until it is answered.
HopsOnlyMoveForward ==
  [][\A i \in Slots :
       /\ HopRank(hops_buffer'[i]) >= HopRank(hops_buffer[i])
       /\ hops_buffer[i].kind = "Done" => hops_buffer'[i] = hops_buffer[i]
       /\ (hops_buffer[i].kind = "FindingAsn" /\ hops_buffer'[i].kind = "FindingAsn")
            => hops_buffer'[i] = hops_buffer[i]
       /\ (hops_buffer[i].kind = "FindingAsn" /\ hops_buffer'[i].kind = "Done")
            => hops_buffer'[i].ip = hops_buffer[i].ip
       /\ (hops_buffer[i].kind = "Pending" /\ hops_buffer'[i].kind = "Pending")
            => hops_buffer'[i] = hops_buffer[i]]_vars

\* C2 witness: a hop has gone all the way to Done through a WHOIS lookup while
\* a later hop is still Pending, and a poll has just run.
HopWentThroughAllStages ==
  /\ ret.pre # "None"
  /\ \E i, j \in Slots :
       /\ i < j /\ j < used_hops
       /\ hops_buffer[i] = Done(Ip9, 19281)
       /\ hops_buffer[j].kind = "Pending"

\* C3: hops() has exactly used_hops entries, used_hops <= max_hops, and no slot
\* below used_hops is Unused.
UsedHopsWithinMaxHops ==
  /\ DOMAIN hops = 0..(used_hops - 1)
  /\ used_hops <= config.max_hops
  /\ \A i \in Slots : i < used_hops => hops_buffer[i].kind # "Unused"

\* C4 as claimed: a poll of a Terminated trace returns (Yes, Some(reason)) and
\* works on nothing, and no poll writes a hop after it has set the state to
\* Terminated.
NoHopWrittenOnceTerminated ==
  /\ ret.pre # "None" => ~ret.lateMut
  /\ ret.pre = "Terminated" =>
       /\ ret.did_update = "Yes" /\ ret.reason = state.reason
       /\ ret.probes = <<>> /\ ret.nread = 0 /\ ret.asked = 0

\* C4 as amended: from a Terminated state every step leaves the state, the
\* hops and the cache as they are and takes no frame from the channel, and a
\* poll returns (Yes, Some(reason)) with that reason, having sent no probe,
\* read no frame and polled no resolver.
TerminatedIsFinal ==
  [][state.kind = "Terminated" =>
       /\ state' = state
       /\ hops_buffer' = hops_buffer
       /\ used_hops' = used_hops
       /\ asn_cache' = asn_cache
       /\ Len(chan') >= Len(chan)
       /\ ret'.pre # "None" =>
            /\ ret'.did_update = "Yes" /\ ret'.reason = state.reason
            /\ ret'.probes = <<>> /\ ret'.nread = 0 /\ ret'.asked = 0]_vars

\* C4 witness: a Terminated trace has been polled while a frame was waiting,
\* a resolver was still in flight and a hop was still Pending.
TerminatedTracePolled ==
  /\ ret.pre = "Terminated"
  /\ chan # <<>>
  /\ \E i \in Slots : i < used_hops /\ hops_buffer[i].kind = "FindingAsn"
  /\ \E i \in Slots : i < used_hops /\ hops_buffer[i].kind = "Pending"

ChangeIsReportedAsUpdate ==
  [][(ret'.pre # "None" /\ (hops' # hops \/ state'.kind # state.kind))
       => ret'.did_update = "Yes"]_vars

AllTtlsProbedBeforeSentAll ==
  (config.max_hops >= 1 /\ state.kind = "SentAllRequests")
    => /\ initProbes = [i \in 1..config.max_hops |-> i]
       /\ used_hops = config.max_hops

\* C9: with max_hops = 1 the first poll sends the probe with TTL 1 and records
\* hop 0, and no other initial probe is sent.
SingleHopTraceProbesOnce ==
  (config.max_hops = 1 /\ state.kind # "NotStarted")
    => /\ initProbes = <<1>>
       /\ used_hops = 1

\* the network_info scenario S1 expects for each router
S1Expected(ip) ==
  IF ip = Ip10 THEN NoneAsn
  ELSE IF ip = Ip192 THEN 64500
  ELSE 19281

UnreachableFromOthersChangesNothing ==
  [][\A k \in 1..Len(chan) :
       (ret'.pre # "None" /\ ret'.nread >= k /\ chan[k].kind = "DestinationUnreachable")
         => IF chan[k].ip = dst_ip
            THEN state' = Terminated("DestinationUnreachable")
            ELSE k = 1 => (state' = state /\ hops' = hops)]_vars

\* C11 as amended: a poll that reads a Destination-Unreachable sent by the
\* destination leaves the trace Terminated(DestinationUnreachable); one sent by
\* another host is the last frame the poll reads, does not terminate the trace
\* and answers no hop: every Pending and Done hop stays as it was, and the poll
\* only does what it does without a packet, the start of the next hop when
\* the wait of the current one has run out and the pass over the resolvers.
UnreachableOnlyFromDestinationTerminates ==
  [][\A k \in 1..Len(chan) :
       (ret'.pre # "None" /\ ret'.nread >= k /\ chan[k].kind = "DestinationUnreachable")
         => IF chan[k].ip = dst_ip
            THEN state' = Terminated("DestinationUnreachable")
            ELSE /\ ret'.nread = k
                 /\ state'.kind # "Terminated"
                 /\ state'.kind = "ReachedDestination" => state' = state
                 /\ k = 1 =>
                      /\ \/ state' = state
                         \/ /\ state.kind \in {"NotStarted", "OnHop"}
                            /\ state'.kind \in {"OnHop", "SentAllRequests"}
                            /\ state'.when = now
                            /\ (state.kind = "OnHop" => now - state.when > config.wait_time_per_hop)
                      /\ \A i \in Slots :
                           \/ hops_buffer'[i] = hops_buffer[i]
                           \/ /\ hops_buffer[i].kind = "FindingAsn"
                              /\ hops_buffer'[i] = Done(hops_buffer[i].ip, WhoisStub(hops_buffer[i].ip))
                           \/ /\ hops_buffer[i].kind = "Unused"
                              /\ hops_buffer'[i].kind = "Pending"
                              /\ state'.kind = "OnHop" /\ state'.index = i]_vars

\* C11 witness: a poll has read a Destination-Unreachable sent by a router
\* while hops were Pending, and the trace goes on.
UnreachableFromRouterRead ==
  /\ ret.pre \in {"OnHop", "SentAllRequests", "ReachedDestination"}
  /\ ret.nread = 1
  /\ ret.did_update = "No"
  /\ state.kind = ret.pre
  /\ \E i \in Slots : i < used_hops /\ hops_buffer[i].kind = "Pending"
  /\ \E i \in Slots : i < used_hops /\ hops_buffer[i].kind = "Done"

\* C12: when a poll reads the same reply twice and the first copy matches a
\* Pending hop, the second copy matches no hop: one hop is answered in that
\* poll, not two.
SameReplyTwiceAnswersOneHop ==
  [][(/\ ret'.pre # "None"
      /\ Len(chan) >= 2 /\ chan[1] = chan[2]
      /\ MatchPos(hops_buffer, used_hops, chan[1].id) # NoPos
      /\ ret'.nread = 2)
       => Cardinality({i \in Slots : /\ HopRank(hops_buffer[i]) <= 1
                                     /\ HopRank(hops_buffer'[i]) >= 2}) <= 1]_vars

\* the lowest slot index that holds no trace, traces.len() when every slot does
LowestFree(ts) ==
  IF \E i \in DOMAIN ts : ~ts[i].active
  THEN CHOOSE i \in DOMAIN ts : ~ts[i].active /\ \A j \in DOMAIN ts : j < i => ts[j].active
  ELSE TLen(ts)

\* C13: start_trace returns the lowest slot index that holds no active trace
\* if there is one, and otherwise appends a slot and returns its index (stated
\* for the calls made while every active trace has sent its first probe).
StartTraceReturnsLowestFree ==
  [][(event'.call = "start_trace" /\ \A i \in ActiveSlots : traces[i].started) =>
       /\ event'.id = LowestFree(traces)
       /\ traces' = IF LowestFree(traces) < TLen(traces)
                    THEN [traces EXCEPT ![LowestFree(traces)] = traces'[LowestFree(traces)]]
                    ELSE Push(traces, traces'[TLen(traces)])]_vars

\* C14: whenever try_next emits TraceDone{id}, slot id is free afterwards and
\* next_id has become min(id, next_id) (stated for the traces that have sent
\* their first probe).
TraceDoneFreesSlotAndLowersNextId ==
  [][(event'.kind = "TraceDone" /\ traces[event'.id].started) =>
       /\ ~traces'[event'.id].active
       /\ next_id' = Min(event'.id, next_id)]_vars

\* C15: when the poll of a trace returns an error, try_next returns TraceDone
\* for that trace id with Error(kind), the slot is free and reusable afterwards,
\* and no other slot is touched; the first poll of a trace to an IPv6
\* destination over a channel without IPv6 is such an error, Ipv6Disabled.
TraceErrorBecomesTraceDone ==
  [][event'.call = "try_next" =>
       /\ event'.result = "Err" =>
            /\ event'.kind = "TraceDone"
            /\ event'.id = event'.polled
            /\ event'.error # "None" /\ event'.reason = "None"
            /\ traces[event'.id].active /\ traces'[event'.id] = NoneTrace
            /\ next_id' = Min(event'.id, next_id)
            /\ DOMAIN traces' = DOMAIN traces
            /\ \A j \in DOMAIN traces : j # event'.id => traces'[j].active = traces[j].active
       /\ \A i \in event'.visited :
            (~traces[i].started /\ Len(traces[i].dst) = 8 /\ ~enable_ipv6)
              => event'.kind = "TraceDone" /\ event'.id = i /\ event'.error = "Ipv6Disabled"]_vars

\* C15 witness: the trace to an IPv6 destination has ended with Ipv6Disabled
\* while another trace is running with a hop Pending.
Ipv6DisabledReported ==
  /\ event.kind = "TraceDone" /\ event.error = "Ipv6Disabled"
  /\ \E j \in DOMAIN traces : j # event.id /\ traces[j].active /\ traces[j].pend # {}

\* C16: under repeated calls of try_next every active trace has its non-packet
\* step run, sooner or later, unless it has left its slot.
EveryActiveTraceIsVisited ==
  \A i \in 0..(MaxSlots - 1) :
    (i \in DOMAIN traces /\ traces[i].active)
      ~> (i \notin DOMAIN traces \/ ~traces[i].active \/ i \in event.visited)

\* the running traces with a Pending hop that has the id of the reply; a
\* terminated trace still in its slot answers every packet with its reason
Matching(pkt) ==
  {i \in ActiveSlots : /\ pkt.kind \in {"EchoReply", "TimeExceeded"}
                       /\ traces[i].term = "None"
                       /\ pkt.id \in traces[i].pend}

FoundAt == {k \in 1..3 : answer.results[Sources[k]].kind = "Found"}

\* C18: a poll of the finder returns Found with the ASN of the first source,
\* in the order IANA, RADB, Cymru, that returned Found in this poll, whatever
\* the other sources returned; with no Found it returns NotFound when all
\* three sources returned NotFound, and Pending otherwise.
FinderAnswerAggregatesSources ==
  answer.call = "poll" =>
    /\ FoundAt # {} =>
         /\ answer.ret = "Found"
         /\ \E k \in FoundAt :
              /\ \A j \in FoundAt : k <= j
              /\ answer.asn = answer.results[Sources[k]].asn
    /\ (FoundAt = {} /\ \A n \in SourceNames : answer.results[n].kind = "NotFound")
         => answer.ret = "NotFound"
    /\ (FoundAt = {} /\ \E n \in SourceNames : answer.results[n].kind # "NotFound")
         => answer.ret = "Pending"

\* scenario S4: Cymru's line gives AS64502 while IANA, which has read
\* origin: AS64501, has not closed its stream
CymruAnswersBeforeIanaCloses ==
  /\ answer.call = "poll"
  /\ answer.ret = "Found" /\ answer.asn = 64502
  /\ answer.results["cymru"].kind = "Found"
  /\ answer.results["iana"].kind = "Pending"
  /\ finder.iana.line_origin = 64501 /\ ~finder.iana.closed

\* C19: a source whose read gave WouldBlock or TimedOut reports Pending for
\* that poll.
TransientReadIsPending ==
  answer.call = "poll" =>
    \A n \in SourceNames :
      answer.reads[n] \in {"WouldBlock", "TimedOut"} => answer.results[n].kind = "Pending"

\* the sources that failed hard: not connected at construction, a read error
\* that is not transient, or a redirect whose connection failed
FailedHard ==
  {n \in SourceNames : ~finder[n].open \/ answer.reads[n] \in {"ConnectionReset", "ConnectFailed"}}

\* C20: lookup and poll never return an error; in a poll a source that failed
\* hard counts as NotFound, and a Found of another source is returned.
HardErrorNeverFailsTheResolver ==
  /\ answer.call = "lookup" =>
       /\ answer.ret = "Ok" /\ finder.made
       /\ \A n \in SourceNames : answer.reads[n] = "ConnectFailed" <=> ~finder[n].open
  /\ answer.call = "poll" =>
       /\ answer.err = "None" /\ answer.ret \in {"Found", "NotFound", "Pending"}
       /\ \A n \in FailedHard :
            /\ answer.results[n] = AsnNotFound
            /\ (\E m \in SourceNames \ {n} : answer.results[m].kind = "Found")
                 => answer.ret = "Found"

\* IANA's read fails with ConnectionReset and RADB was never connected, and
\* the poll returns what Cymru found
FoundDespiteFailedSources ==
  /\ answer.call = "poll"
  /\ answer.reads["iana"] = "ConnectionReset"
  /\ ~finder.radb.open
  /\ answer.results["cymru"].kind = "Found"
  /\ answer.ret = "Found" /\ answer.asn = answer.results["cymru"].asn

\* C21: when the three connections fail, lookup returns a finder without
\* sources, and a poll of a finder without sources returns NotFound.
EmptyResolverAnswersNotFound ==
  /\ (answer.call = "lookup" /\ \A n \in SourceNames : answer.reads[n] = "ConnectFailed")
       => /\ answer.ret = "Ok" /\ finder.made
          /\ \A n \in SourceNames : finder[n] = NoServer
  /\ (answer.call = "poll" /\ \A n \in SourceNames : ~finder[n].open)
       => answer.ret = "NotFound" /\ answer.err = "None"

\* the first poll of a finder whose three connections failed has returned
EmptyResolverPolled ==
  /\ answer.call = "poll" /\ answer.ret = "NotFound"
  /\ \A n \in SourceNames : finder[n] = NoServer /\ answer.reads[n] = "None"

\* the server a stored refer or whois value names
Named(host) == host[1][1].w

\* C22: a poll in which IANA or RADB finds its stream closed (and the
\* connection it opens, if any, succeeds) returns Found with the stored origin
\* if there is one; otherwise connects anew to the refer server, or to the
\* whois server when no refer was stored, and is Pending; otherwise NotFound.
EndOfStreamOfNormalSource ==
  [][\A n \in {"iana", "radb"} :
       (finder.made /\ answer.call # "poll" /\ answer'.call = "poll"
          /\ answer'.reads[n] = "Eof")
         => IF finder[n].line_origin # NoneAsn
            THEN /\ answer'.results[n] = AsnFound(finder[n].line_origin)
                 /\ finder'[n] = [finder[n] EXCEPT !.closed = TRUE]
            ELSE IF finder[n].line_refer # <<>>
            THEN /\ answer'.results[n] = AsnPending
                 /\ finder'[n] = Connect(Named(finder[n].line_refer))
            ELSE IF finder[n].line_whois # <<>>
            THEN /\ answer'.results[n] = AsnPending
                 /\ finder'[n] = Connect(Named(finder[n].line_whois))
            ELSE /\ answer'.results[n] = AsnNotFound
                 /\ finder'[n] = [finder[n] EXCEPT !.closed = TRUE]]_vars

\* scenario S5: IANA was left for whois.example.net, whose OriginAS line
\* gives AS64503
RedirectedSourceAnswers ==
  /\ answer.call = "poll" /\ answer.ret = "Found" /\ answer.asn = 64503
  /\ finder.iana.server = "whois.example.net"
  /\ answer.reads["iana"] = "Line" /\ answer.results["iana"] = AsnFound(64503)
  /\ answer.results["radb"].kind # "Found" /\ answer.results["cymru"].kind # "Found"

\* C23: a reply matched to the Pending hop at pos makes poll_inner call
\* AsnFinder::lookup exactly when its source is public and has no entry in
\* the cache; a cached entry, an ASN or None, makes the hop Done with it, and
\* a source that is not public makes the hop Done without network_info.
ResolverCreatedIffPublicAndUncached ==
  [][(/\ state.kind \in {"OnHop", "SentAllRequests", "ReachedDestination"}
      /\ chan # <<>> /\ Head(chan).kind \in {"EchoReply", "TimeExceeded"}
      /\ MatchPos(hops_buffer, used_hops, Head(chan).id) # NoPos
      /\ ret'.nread >= 1)
       => LET pos == MatchPos(hops_buffer, used_hops, Head(chan).id)
              ip == Head(chan).ip
          IN /\ \E m \in ret'.matches :
                  /\ m.pos = pos /\ m.ip = ip
                  /\ m.lookup <=> (is_public(ip) /\ asn_cache[ip] = Absent)
             /\ ~is_public(ip) => hops_buffer'[pos] = Done(ip, NoneAsn)
             /\ (is_public(ip) /\ asn_cache[ip] # Absent)
                  => hops_buffer'[pos] = Done(ip, asn_cache[ip])
             /\ (is_public(ip) /\ asn_cache[ip] = Absent)
                  => \/ hops_buffer'[pos] = FindingAsn(ip)
                     \/ /\ hops_buffer'[pos] = Done(ip, WhoisStub(ip))
                        /\ asn_cache'[ip] = WhoisStub(ip)]_vars

\* a second reply of 8.8.8.8, whose lookup found no ASN, is answered from the
\* cache: the hop is Done without network_info and no resolver was made
NegativeCacheEntryUsed ==
  /\ asn_cache[Ip8] = NoneAsn
  /\ \E m \in ret.matches :
       /\ m.ip = Ip8 /\ ~m.lookup
       /\ hops_buffer[m.pos] = Done(Ip8, NoneAsn)
  /\ ret.asked = 0

\* C24: no call of Trace::poll aborts the thread, whatever the TraceConfig.
CoreNeverPanics == ~panicked

\* a step that is a call of Trace::poll that returned
PollStep == ret'.pre # "None"

\* C25: a poll of a trace that is not Terminated reads the reply that is
\* waiting for one of its Pending hops and applies it to that hop, whatever
\* the timers say.
WaitingReplyIsAppliedByThePoll ==
  [][(/\ PollStep /\ state.kind # "Terminated"
      /\ chan # <<>> /\ Head(chan).kind \in {"EchoReply", "TimeExceeded"}
      /\ MatchPos(hops_buffer, used_hops, Head(chan).id) # NoPos)
       => /\ ret'.nread >= 1
          /\ hops_buffer'[MatchPos(hops_buffer, used_hops, Head(chan).id)].kind # "Pending"]_vars

\* Trace::all_hops_done of the state before a step
AllHopsDone == \A i \in Slots : i < used_hops => hops_buffer[i].kind = "Done"

\* C26: a poll in ReachedDestination at which every hop is Done terminates
\* the trace with Done, also when a retry is due.
AllDoneTerminatesInThatPoll ==
  [][(PollStep /\ state.kind = "ReachedDestination" /\ AllHopsDone)
       => state' = Terminated("Done")]_vars

\* the slots of hops() that hold a Pending hop before a step
PendingSlots == {i \in Slots : i < used_hops /\ hops_buffer[i].kind = "Pending"}

\* a poll in which the retry of SentAllRequests or ReachedDestination is due
RetryDue ==
  /\ PollStep
  /\ \/ /\ state.kind = "SentAllRequests"
        /\ ~(now - state.when > config.destination_timeout)
     \/ /\ state.kind = "ReachedDestination"
        /\ ~(now - state.when > config.completion_timeout /\ ~AllHopsDone)
  /\ now - state.last_retry > config.retry_frequency

\* C27: a retry sends one probe for each Pending hop, with TTL slot + 1 and
\* the id of the hop, and no other probe; it sets last_retry and leaves the
\* hops and the rest of the state as they were.
RetryResendsPendingHopsOnly ==
  [][RetryDue =>
       /\ \A i \in PendingSlots :
            /\ Cardinality({k \in DOMAIN ret'.probes : ret'.probes[k].ttl = i + 1}) = 1
            /\ \A k \in DOMAIN ret'.probes :
                 ret'.probes[k].ttl = i + 1 => ret'.probes[k].id = hops_buffer[i].id
       /\ \A k \in DOMAIN ret'.probes :
            ret'.probes[k].ttl - 1 \in PendingSlots /\ ~ret'.probes[k].initial
       /\ state' = [state EXCEPT !.last_retry = now]
       /\ hops_buffer' = hops_buffer /\ used_hops' = used_hops
       /\ ret'.nread = 0]_vars

\* a retry has resent the probe of the Pending second hop, with TTL 2, and
\* none for the first hop, which was answered
RetryAfterOneAnswer ==
  /\ ret.pre \in {"SentAllRequests", "ReachedDestination"}
  /\ hops_buffer[0].kind \in {"FindingAsn", "Done"}
  /\ hops_buffer[1].kind = "Pending"
  /\ ret.probes = <<[ttl |-> 2, id |-> hops_buffer[1].id, initial |-> FALSE]>>
  /\ state.last_retry = now /\ state.when < now

\* C28: DestinationTimeout ends a trace from SentAllRequests only, when more
\* than destination_timeout has passed since the state was entered; a poll
\* after that deadline ends it, and the entry time stays while the trace is
\* in SentAllRequests.
DestinationTimeoutFromSentAllRequests ==
  [][/\ (state.kind # "Terminated" /\ state' = Terminated("DestinationTimeout"))
          => /\ state.kind = "SentAllRequests"
             /\ now - state.when > config.destination_timeout
     /\ (PollStep /\ state.kind = "SentAllRequests"
           /\ now - state.when > config.destination_timeout)
          => state' = Terminated("DestinationTimeout")
     /\ (state.kind # "SentAllRequests" /\ state'.kind = "SentAllRequests")
          => state'.when = now
     /\ (state.kind = "SentAllRequests" /\ state'.kind = "SentAllRequests")
          => state'.when = state.when]_vars

\* the trace was ended by DestinationTimeout by the first poll after its
\* deadline: routers had answered and the destination had not
DestinationTimedOut ==
  /\ state = Terminated("DestinationTimeout")
  /\ ret.pre = "SentAllRequests" /\ ret.did_update = "Yes"
  /\ now = config.destination_timeout + 1
  /\ used_hops >= 1
  /\ \A i \in Slots : i < used_hops => hops_buffer[i].ip \notin {dst_ip, NoIp}

\* C29: CompletionTimeout ends a trace from ReachedDestination only, at a
\* poll made more than completion_timeout after the state was entered while
\* a hop of hops() is not Done; such a poll ends it.
CompletionTimeoutFromReachedDestination ==
  [][/\ (state.kind # "Terminated" /\ state' = Terminated("CompletionTimeout"))
          => /\ state.kind = "ReachedDestination"
             /\ now - state.when > config.completion_timeout
             /\ ~AllHopsDone
     /\ (PollStep /\ state.kind = "ReachedDestination"
           /\ now - state.when > config.completion_timeout /\ ~AllHopsDone)
          => state' = Terminated("CompletionTimeout")
     /\ (state.kind # "ReachedDestination" /\ state'.kind = "ReachedDestination")
          => state'.when = now]_vars

\* the trace was ended by CompletionTimeout: the destination had answered
\* and a hop was not Done
CompletionTimedOut ==
  /\ state = Terminated("CompletionTimeout")
  /\ ret.pre = "ReachedDestination" /\ ret.did_update = "Yes"
  /\ \E i \in Slots : i < used_hops /\ hops_buffer[i].ip = dst_ip
  /\ \E i \in Slots : i < used_hops /\ hops_buffer[i].kind # "Done"

\* a poll in OnHop before wait_time_per_hop has passed, with one frame
\* waiting: a reply of a router for the Pending hop at pos
RouterReplyInOnHop(pos) ==
  /\ PollStep /\ state.kind = "OnHop"
  /\ ~(now - state.when > config.wait_time_per_hop)
  /\ Len(chan) = 1 /\ Head(chan).kind \in {"EchoReply", "TimeExceeded"}
  /\ Head(chan).ip # dst_ip
  /\ MatchPos(hops_buffer, used_hops, Head(chan).id) = pos

RoundRobinCall ==
  /\ event'.call = "try_next" /\ event'.nread = 0
  /\ TLen(traces) > 0

\* C32: each call of try_next that runs the round-robin pass visits the
\* traces from iter_cursor on, stops at the first one that produces an event,
\* and leaves iter_cursor one slot further than it found it.
CursorRotatesByOneEachCall ==
  [][RoundRobinCall =>
       /\ iter_cursor' = (iter_cursor + 1) % TLen(traces)
       /\ event'.kind # "None" => event'.id = event'.polled
       /\ \A i \in event'.visited :
            \A j \in ActiveSlots :
              ((j - iter_cursor) % TLen(traces) < (i - iter_cursor) % TLen(traces))
                => j \in event'.visited]_vars

\* C33: a call of try_next takes one packet at most from the channel, and a
\* packet it took is offered to every active trace, whatever the traces
\* before made of it.
PacketIsOfferedToEveryActiveTrace ==
  [][event'.call = "try_next" =>
       /\ Len(rx) - Len(rx') <= 1
       /\ event'.offered # {} => event'.offered = ActiveSlots]_vars

\* a line that holds the answer of its source: OriginAS with an ASN, or the
\* ASN column of Cymru
Definitive(name, l) ==
  IF name = "cymru"
  THEN l.sep = "|" /\ try_parse_asn_unprefixed(l.left) # NoneAsn
  ELSE /\ l.sep = ":" /\ eq_ignore_ascii_case(l.left, "originas")
       /\ try_parse_asn_ignore_prefix(l.right) # NoneAsn

\* a connected source has received a line that holds its answer
ReceivedAnswer ==
  \E name \in SourceNames :
    /\ finder[name].open
    /\ \E k \in DOMAIN inbox[name] : Definitive(name, inbox[name][k])

\* C34: a call of AsnFinder::poll made when a source has already received a
\* line that holds its answer returns Found.
OnePollReadsAllReceivedLines ==
  [][(finder.made /\ answer.call # "poll" /\ answer'.call = "poll" /\ ReceivedAnswer)
       => answer'.ret = "Found"]_vars

\* C35: what poll makes of the reply to an Echo Request is the result of the
\* kind of the reply, from the host that sent it, with the PacketId that
\* send_echo was given.
ReplyCarriesTheIdOfTheRequest ==
  wire.stage = "polled" =>
    wire.result = [kind |-> wire.kind, ip |-> wire.from, id |-> wire.id]

\* C36: start_trace returns the id of a slot that holds no active trace, and
\* leaves every active trace in its slot.
StartTraceKeepsActiveTraces ==
  [][event'.call = "start_trace" =>
       /\ event'.id \notin ActiveSlots
       /\ \A i \in ActiveSlots : traces'[i] = traces[i]]_vars

\* the trace is polled again and again: ever again a state is the result of
\* a call of poll
PolledForEver == []<>(ret.pre # "None")

\* C37: a trace in ReachedDestination whose hops are all Done, polled again
\* and again while time passes, is Terminated in the end.
AllDoneLeadsToTerminated ==
  PolledForEver =>
    ((state.kind = "ReachedDestination" /\ AllHopsDone) ~> (state.kind = "Terminated"))

ReachedDestinationIsTheLastLeg ==
  [][/\ state.kind = "ReachedDestination"
          => /\ state'.kind \in {"ReachedDestination", "Terminated"}
             /\ used_hops' = used_hops
     /\ state' = Terminated("Done")
          => /\ \A i \in Slots : i < used_hops' => hops_buffer'[i].kind = "Done"
             /\ \E i \in Slots : /\ i < used_hops'
                                  /\ hops_buffer'[i].kind = "Done"
                                  /\ hops_buffer'[i].ip = dst_ip']_vars

\* C39 witness: a trace that went through a router and the destination has
\* been polled in ReachedDestination and is Terminated with Done.
DoneAfterReachedDestination ==
  /\ state = Terminated("Done")
  /\ ret.pre = "ReachedDestination"
  /\ used_hops >= 2
  /\ \E i \in Slots : i < used_hops /\ hops_buffer[i].ip # dst_ip

\* the finder is polled again and again
FinderPolledForEver == []<>(answer.call = "poll")

\* each source of the finder finds the stream of the server it is connected
\* to closed, again and again
StreamsClose ==
  \A name \in SourceNames :
    []<>(\/ ~finder.made
         \/ ~finder[name].open
         \/ finder[name].closed
         \/ answer.reads[name] = "Eof")

\* C40: a lookup that is polled for ever, whose servers all close their
\* streams, returns Found or NotFound in the end, whatever the servers sent
\* and wherever their refer and whois lines point.
LookupEndsWhenStreamsClose ==
  (FinderPolledForEver /\ StreamsClose) =>
    (finder.made ~> (answer.call = "poll" /\ answer.ret \in {"Found", "NotFound"}))

====
